---------------------------- MODULE Spec2Model ----------------------------
(***************************************************************************)
(* Model of the statement engine of RelevesBancaires-AI-Analyzer:          *)
(*   src/src/models.py    Transaction, ReleveBancaire (coherence)          *)
(*   src/src/analysis.py  parse_period, ConsistencyReport,                 *)
(*                        analyze_continuity, merge_statements             *)
(*   src/main.py          show_analysis_section (merged ledger)            *)
(*                                                                         *)
(* Amounts are exact decimals (Python Decimal).  They are represented by   *)
(* the integer number of thousandths, so 0.01 is 10 and 0.009 is 9.        *)
(* Text is represented by tuples of one-character strings.                 *)
(***************************************************************************)
EXTENDS Integers, Sequences, FiniteSets, TLC

VARIABLES
    releve,             \* models.py: the ReleveBancaire under inspection
    coherence,          \* what a reader of solde_calcule / is_coherent saw
    period_str,         \* analysis.py: argument of parse_period
    period_obj,         \* analysis.py: value returned by parse_period
    releves,            \* analysis.py: argument of analyze_continuity
    reports,            \* analysis.py: value returned by analyze_continuity
    transactions_list,  \* analysis.py: argument of merge_statements
    df,                 \* analysis.py: value returned by merge_statements
    account_releves,    \* main.py: statements of the audited account
    db_transactions,    \* main.py: rows of get_releve_transactions, by id
    selected_periodes,  \* main.py: ids picked in the multiselect, in order
    ledger,             \* main.py: outcome of the merge button
    libelle,            \* charts.py: argument of categorize_transaction
    categorie,          \* charts.py: value returned by categorize_transaction
    line,               \* awb_ocr_parser.py: argument of _parse_transaction_line
    transaction,        \* awb_ocr_parser.py: outcome of _parse_transaction_line
    file_name,          \* awb_ocr_parser.py: file_path.name handed to parse
    text_lines,         \* awb_ocr_parser.py: lines of the extracted text
    parsed,             \* awb_ocr_parser.py: outcome of parse
    amount_str,         \* awb_ocr_parser.py: argument of _clean_amount
    amount,             \* awb_ocr_parser.py: Decimal(_clean_amount(amount_str))
    data,               \* awb_gemini_parser.py: dict of extract_bank_statement
    extracted,          \* awb_gemini_parser.py: outcome of AWBGeminiParser.parse
    store,              \* database.py: committed content of bank_data.db
    db_result,          \* database.py: outcome of the last call
    calls               \* frames of the invocations in progress

\* The state of models.py, analysis.py and main.py.
analysis_vars ==
    << releve, coherence, period_str, period_obj, releves, reports,
       transactions_list, df, account_releves, db_transactions,
       selected_periodes, ledger >>

\* The state of charts.py and of the parsers.
text_vars ==
    << libelle, categorie, line, transaction, file_name, text_lines, parsed,
       amount_str, amount >>

\* The state of the structured-extraction adapter, of the database and of
\* the invocations in progress.
store_vars == << data, extracted, store, db_result, calls >>

vars == << analysis_vars, text_vars, store_vars >>

\* Marks a result that has not been produced yet.
NoResult == [kind |-> "none"]

-----------------------------------------------------------------------------
(* Bounds of the model                                                      *)

MaxTransactions == 2     \* transactions of the statement read for coherence
MaxReleves == 3          \* statements handed to analyze_continuity
MaxBatches == 2          \* batches handed to merge_statements
MaxRows == 3             \* transactions in all batches together
MaxStoredRows == 2       \* stored transactions of one statement of the ledger

-----------------------------------------------------------------------------
(* Generic helpers                                                          *)

Abs(x) == IF x < 0 THEN -x ELSE x

Range(s) == { s[i] : i \in 1..Len(s) }

\* Decimal('0.01') in thousandths.
Tolerance == 10

\* All orders of a list: its head put at every place of every order of its tail.
RECURSIVE Orders(_)
Orders(rs) ==
    IF rs = << >> THEN { << >> }
    ELSE UNION { { SubSeq(p, 1, i - 1) \o << Head(rs) >> \o SubSeq(p, i, Len(p)) :
                     i \in 1..(Len(p) + 1) } : p \in Orders(Tail(rs)) }

-----------------------------------------------------------------------------
(* models.py                                                                *)

\* Transaction.montant_signe
montant_signe(t) == t.credit - t.debit

\* sum(t.montant_signe for t in self.transactions)
RECURSIVE total_mouvements(_)
total_mouvements(ts) ==
    IF ts = << >> THEN 0
    ELSE montant_signe(Head(ts)) + total_mouvements(Tail(ts))

\* ReleveBancaire.solde_calcule
solde_calcule(r) == r.solde_initial + total_mouvements(r.transactions)

is_coherent_inclusive(r) == Abs(solde_calcule(r) - r.solde_final) <= Tolerance

\* ReleveBancaire.is_coherent
is_coherent(r) == Abs(solde_calcule(r) - r.solde_final) < Tolerance

\* Amounts a statement or a transaction may carry: zero, just under the
\* tolerance, the tolerance itself, and a large value.
AmountValues == {0, 9, 10, 1000}

\* ReleveBancaire(...): the dataclass constructor, transactions still empty.
NewReleve(si, sf) ==
    [solde_initial |-> si, solde_final |-> sf, transactions |-> << >>]

\* transactions.append(Transaction(...)) while a parser assembles the statement.
AppendTransaction ==
    /\ Len(releve.transactions) < MaxTransactions
    /\ \E d \in AmountValues, c \in AmountValues :
         releve' = [releve EXCEPT !.transactions =
                        Append(@, [debit |-> d, credit |-> c])]
    /\ coherence' = NoResult
    /\ UNCHANGED << period_str, period_obj, releves, reports,
                    transactions_list, df, account_releves, db_transactions,
                    selected_periodes, ledger,
                    text_vars, store_vars >>

\* A caller reads the two properties of the statement.
ReadCoherence ==
    /\ coherence = NoResult
    /\ coherence' = [kind |-> "coherence",
                     solde_calcule |-> solde_calcule(releve),
                     is_coherent |-> is_coherent(releve)]
    /\ UNCHANGED << releve, period_str, period_obj, releves, reports,
                    transactions_list, df, account_releves, db_transactions,
                    selected_periodes, ledger,
                    text_vars, store_vars >>

\* A component that is not exercised stays in the state below.
CoherenceIdle == releve = NewReleve(0, 0) /\ coherence = NoResult
PeriodIdle == period_str = << >> /\ period_obj = NoResult
ContinuityIdle == releves = << >> /\ reports = NoResult
MergeIdle == transactions_list = << >> /\ df = NoResult
LedgerIdle ==
    /\ account_releves = << >>
    /\ db_transactions = << >>
    /\ selected_periodes = << >>
    /\ ledger = NoResult
CategoryIdle == libelle = << >> /\ categorie = NoResult
LineIdle == line = << >> /\ transaction = NoResult
ParseIdle == file_name = << >> /\ text_lines = << >> /\ parsed = NoResult
AmountIdle == amount_str = << >> /\ amount = NoResult
TextIdle == CategoryIdle /\ LineIdle /\ ParseIdle /\ AmountIdle
GeminiIdle == data = NoResult /\ extracted = NoResult
DatabaseIdle == store = NoResult /\ db_result = NoResult
CallsIdle == calls = << >>
StoreVarsIdle == GeminiIdle /\ DatabaseIdle /\ CallsIdle
AnalysisIdle ==
    CoherenceIdle /\ PeriodIdle /\ ContinuityIdle /\ MergeIdle /\ LedgerIdle

InitCoherence ==
    /\ releve \in { NewReleve(si, sf) : si \in AmountValues, sf \in AmountValues }
    /\ coherence = NoResult
    /\ PeriodIdle /\ ContinuityIdle /\ MergeIdle /\ LedgerIdle /\ TextIdle
    /\ StoreVarsIdle

NextCoherence == AppendTransaction \/ ReadCoherence

SpecCoherence == InitCoherence /\ [][NextCoherence]_vars

-----------------------------------------------------------------------------
(* C1                                                                       *)

\* Sum of one field over a list of transactions, by index.
RECURSIVE FieldSum(_, _, _)
FieldSum(ts, f, n) == IF n = 0 THEN 0 ELSE ts[n][f] + FieldSum(ts, f, n - 1)

\* The balance the statement's movements lead to.
ExpectedBalance(r) ==
    r.solde_initial + FieldSum(r.transactions, "credit", Len(r.transactions))
                    - FieldSum(r.transactions, "debit", Len(r.transactions))

\* C1: solde_calcule is solde_initial plus the sum of (credit - debit) over the
\* transactions, and is_coherent holds exactly when the computed and declared
\* closing balances differ by less than 0.01; a difference of exactly 0.01 is
\* incoherent, and with no transactions only the two declared balances count.
C1_Coherence ==
    coherence # NoResult =>
        LET gap == ExpectedBalance(releve) - releve.solde_final IN
        /\ coherence.solde_calcule = ExpectedBalance(releve)
        /\ coherence.is_coherent <=> (-Tolerance < gap /\ gap < Tolerance)
        /\ (gap = Tolerance \/ gap = -Tolerance) => ~coherence.is_coherent
        /\ releve.transactions = << >> =>
             (coherence.is_coherent <=>
                Abs(releve.solde_initial - releve.solde_final) < Tolerance)

\* A statement with transactions whose computed balance is off by exactly 0.01
\* has been read and reported incoherent.
C1_Witness ==
    /\ coherence # NoResult
    /\ releve.transactions # << >>
    /\ Abs(coherence.solde_calcule - releve.solde_final) = Tolerance
    /\ ~coherence.is_coherent

-----------------------------------------------------------------------------
(* analysis.py: parse_period                                                *)
(* Accented letters are written by name: "e_acute" is U+00E9, "E_ACUTE" is *)
(* U+00C9, "u_circ" is U+00FB, "U_CIRC" is U+00DB, "A_TILDE" is U+00C3,    *)
(* "a_tilde" is U+00E3 and "copyright" is U+00A9.                          *)

Digits == {"0", "1", "2", "3", "4", "5", "6", "7", "8", "9"}

DigitVal(c) ==
    CASE c = "0" -> 0 [] c = "1" -> 1 [] c = "2" -> 2 [] c = "3" -> 3
      [] c = "4" -> 4 [] c = "5" -> 5 [] c = "6" -> 6 [] c = "7" -> 7
      [] c = "8" -> 8 [] c = "9" -> 9

\* A non-empty run of decimal digits: what int() accepts of the texts modelled.
IsNumeral(s) == s # << >> /\ \A i \in 1..Len(s) : s[i] \in Digits

\* int(s) for a numeral s.
RECURSIVE int(_)
int(s) ==
    IF s = << >> THEN 0
    ELSE 10 * int(SubSeq(s, 1, Len(s) - 1)) + DigitVal(s[Len(s)])

\* An exception leaving a function.
Raise(e) == [kind |-> "raise", exc |-> e]

IsLeap(y) == (y % 4 = 0 /\ y % 100 # 0) \/ y % 400 = 0

DaysInMonth(y, m) ==
    IF m \in {4, 6, 9, 11} THEN 30
    ELSE IF m = 2 THEN (IF IsLeap(y) THEN 29 ELSE 28)
    ELSE 31

\* datetime(year, month, day): ValueError outside MINYEAR..MAXYEAR, 1..12 and
\* the days of the month.
datetime(y, m, d) ==
    IF y \in 1..9999 /\ m \in 1..12 /\ d \in 1..DaysInMonth(y, m)
    THEN [kind |-> "datetime", year |-> y, month |-> m, day |-> d]
    ELSE Raise("ValueError")

\* months_fr, line 27
months_fr ==
       (<<"j", "a", "n", "v", "i", "e", "r">> :> 1)
    @@ (<<"f", "e_acute", "v", "r", "i", "e", "r">> :> 2)
    @@ (<<"m", "a", "r", "s">> :> 3)
    @@ (<<"a", "v", "r", "i", "l">> :> 4)
    @@ (<<"m", "a", "i">> :> 5)
    @@ (<<"j", "u", "i", "n">> :> 6)
    @@ (<<"j", "u", "i", "l", "l", "e", "t">> :> 7)
    @@ (<<"a", "o", "u_circ", "t">> :> 8)
    @@ (<<"s", "e", "p", "t", "e", "m", "b", "r", "e">> :> 9)
    @@ (<<"o", "c", "t", "o", "b", "r", "e">> :> 10)
    @@ (<<"n", "o", "v", "e", "m", "b", "r", "e">> :> 11)
    @@ (<<"d", "e_acute", "c", "e", "m", "b", "r", "e">> :> 12)

\* re.match(r'^(\d{1,2})-(\d{4})$', period_str): '$' also matches just before
\* a final newline.
mm_yyyy_match(s) ==
    LET AtEnd(n) == Len(s) = n \/ (Len(s) = n + 1 /\ s[n + 1] = "\n")
        Try(k) ==
            /\ Len(s) >= k + 5
            /\ IsNumeral(SubSeq(s, 1, k))
            /\ s[k + 1] = "-"
            /\ IsNumeral(SubSeq(s, k + 2, k + 5))
            /\ AtEnd(k + 5)
        Groups(k) == [matched |-> TRUE, month |-> SubSeq(s, 1, k),
                      year |-> SubSeq(s, k + 2, k + 5)]
    IN  IF Try(2) THEN Groups(2)
        ELSE IF Try(1) THEN Groups(1)
        ELSE [matched |-> FALSE, month |-> << >>, year |-> << >>]

\* datetime.strptime(period_str, "%m/%Y"): %m is 1[0-2]|0[1-9]|[1-9], %Y is
\* four digits, and the whole text must be consumed.
strptime_m_Y(s) ==
    LET Month2 ==
            /\ Len(s) = 7
            /\ \/ s[1] = "1" /\ s[2] \in {"0", "1", "2"}
               \/ s[1] = "0" /\ s[2] \in Digits \ {"0"}
            /\ s[3] = "/"
            /\ IsNumeral(SubSeq(s, 4, 7))
        Month1 ==
            /\ Len(s) = 6
            /\ s[1] \in Digits \ {"0"}
            /\ s[2] = "/"
            /\ IsNumeral(SubSeq(s, 3, 6))
    IN  IF Month2 THEN datetime(int(SubSeq(s, 4, 7)), int(SubSeq(s, 1, 2)), 1)
        ELSE IF Month1 THEN datetime(int(SubSeq(s, 3, 6)), int(SubSeq(s, 1, 1)), 1)
        ELSE Raise("ValueError")

\* str.lower(), one character
lower_char(c) ==
    CASE c = "A" -> "a" [] c = "E" -> "e" [] c = "F" -> "f" [] c = "I" -> "i"
      [] c = "J" -> "j" [] c = "O" -> "o" [] c = "R" -> "r" [] c = "T" -> "t"
      [] c = "V" -> "v" [] c = "M" -> "m" [] c = "S" -> "s"
      [] c = "E_ACUTE" -> "e_acute" [] c = "U_CIRC" -> "u_circ"
      [] c = "A_TILDE" -> "a_tilde"
      [] OTHER -> c

lower_unchanged(s) == s

\* str.lower()
lower(s) == [i \in 1..Len(s) |-> lower_char(s[i])]

IsSpace(c) == c \in {" ", "\n"}

\* str.split(): the maximal runs of non-whitespace characters, in order.
RECURSIVE split_from(_, _, _, _)
split_from(s, i, word, parts) ==
    IF i > Len(s) THEN (IF word = << >> THEN parts ELSE Append(parts, word))
    ELSE IF IsSpace(s[i])
         THEN split_from(s, i + 1, << >>,
                         IF word = << >> THEN parts ELSE Append(parts, word))
         ELSE split_from(s, i + 1, Append(word, s[i]), parts)

split(s) == split_from(s, 1, << >>, << >>)

\* The body of the try block, lines 33-51.
parse_period_try(s) ==
    LET mm_yyyy == mm_yyyy_match(s) IN
    IF mm_yyyy.matched
    THEN datetime(int(mm_yyyy.year), int(mm_yyyy.month), 1)
    ELSE IF "/" \in Range(s)
    THEN strptime_m_Y(s)
    ELSE LET parts == split(lower(s)) IN
         IF Len(parts) >= 2 /\ parts[1] \in DOMAIN months_fr
         THEN IF IsNumeral(parts[Len(parts)])
              THEN datetime(int(parts[Len(parts)]), months_fr[parts[1]], 1)
              ELSE Raise("ValueError")
         ELSE strptime_m_Y(s)

\* parse_period: the bare except turns every exception into 1 January 2000.
parse_period(s) ==
    LET r == parse_period_try(s) IN
    IF r.kind = "raise" THEN datetime(2000, 1, 1) ELSE r

\* Period labels: a month part, a separator and a year part, and a few labels
\* of another shape.
MonthTokens ==
    { <<"0", "1">>, <<"1">>, <<"2">>, <<"0", "3">>, <<"1", "2">>,
      <<"1", "3">>, <<"0", "0">>,
      <<"j", "a", "n", "v", "i", "e", "r">>,
      <<"J", "a", "n", "v", "i", "e", "r">>,
      <<"f", "e_acute", "v", "r", "i", "e", "r">>,
      <<"F", "E_ACUTE", "V", "R", "I", "E", "R">>,
      <<"f", "A_TILDE", "copyright", "v", "r", "i", "e", "r">>,
      <<"A", "O", "U_CIRC", "T">>,
      <<"d", "e_acute", "c", "e", "m", "b", "r", "e">>,
      <<"M", "a", "r", "s">>,
      <<"r", "e", "l", "e", "v", "e_acute">> }

Separators == { <<"-">>, <<"/">>, <<" ">>, << >> }

YearTokens ==
    { <<"2", "0", "2", "4">>, <<"2", "0", "2", "3">>, <<"2", "4">>,
      <<"0", "0", "0", "0">>, <<"2", "0", "x", "4">> }

OtherLabels ==
    { << >>,
      <<"m", "a", "r", "s", " ", "x", " ", "2", "0", "2", "4">>,
      <<"m", "a", "r", "s", " ", "/", " ", "2", "0", "2", "4">>,
      <<" ", "0", "1", "-", "2", "0", "2", "4">>,
      <<"0", "1", "/", "2", "0", "2", "4", " ">>,
      <<"m", "a", "i", " ", " ", "2", "0", "2", "3">> }

PeriodLabels ==
    { m \o sep \o y : m \in MonthTokens, sep \in Separators, y \in YearTokens }
        \cup OtherLabels

\* A caller resolves one label (main.py line 674, analysis.py line 64).
CallParsePeriod ==
    /\ period_obj = NoResult
    /\ period_obj' = parse_period(period_str)
    /\ UNCHANGED << releve, coherence, period_str, releves, reports,
                    transactions_list, df, account_releves, db_transactions,
                    selected_periodes, ledger,
                    text_vars, store_vars >>

InitPeriod ==
    /\ period_str \in PeriodLabels
    /\ period_obj = NoResult
    /\ CoherenceIdle /\ ContinuityIdle /\ MergeIdle /\ LedgerIdle /\ TextIdle
    /\ StoreVarsIdle

NextPeriod == CallParsePeriod

SpecPeriod == InitPeriod /\ [][NextPeriod]_vars

-----------------------------------------------------------------------------
(* C6, C7: the label formats, stated on the text of the label               *)

\* The capital of each letter of the month names.
UpperOf ==
       ("a" :> "A") @@ ("b" :> "B") @@ ("c" :> "C") @@ ("d" :> "D")
    @@ ("e" :> "E") @@ ("f" :> "F") @@ ("i" :> "I") @@ ("j" :> "J")
    @@ ("l" :> "L") @@ ("m" :> "M") @@ ("n" :> "N") @@ ("o" :> "O")
    @@ ("p" :> "P") @@ ("r" :> "R") @@ ("s" :> "S") @@ ("t" :> "T")
    @@ ("u" :> "U") @@ ("v" :> "V")
    @@ ("e_acute" :> "E_ACUTE") @@ ("u_circ" :> "U_CIRC")

\* c is the small letter n or its capital.
SameLetter(c, n) == c = n \/ (n \in DOMAIN UpperOf /\ c = UpperOf[n])

\* s begins with the month name, in any letter case, and a space.
StartsWithMonth(s, name) ==
    /\ Len(s) > Len(name)
    /\ \A i \in 1..Len(name) : SameLetter(s[i], name[i])
    /\ s[Len(name) + 1] = " "

\* s is k digits, the separator and four digits.
IsNumericLabel(s, k, sep) ==
    /\ Len(s) = k + 5
    /\ IsNumeral(SubSeq(s, 1, k))
    /\ s[k + 1] = sep
    /\ IsNumeral(SubSeq(s, k + 2, k + 5))

\* s is the month name, one space and four digits.
IsMonthNameLabel(s, name) ==
    /\ Len(s) = Len(name) + 5
    /\ StartsWithMonth(s, name)
    /\ IsNumeral(SubSeq(s, Len(name) + 2, Len(s)))

FirstDay(y, m) == [kind |-> "datetime", year |-> y, month |-> m, day |-> 1]

Sentinel == FirstDay(2000, 1)

\* C7: a label 'mm-yyyy', 'mm/yyyy' or French month name (any letter case,
\* accents included) followed by a four-digit year resolves to the first day of
\* the month it names; a label holding '/' is decided by the second format
\* alone, whatever the third would make of it.
C7_Formats ==
    period_obj # NoResult =>
        LET s == period_str IN
        /\ \A k \in {1, 2}, sep \in {"-", "/"} :
             LET m == int(SubSeq(s, 1, k))
                 y == int(SubSeq(s, k + 2, k + 5))
             IN  (IsNumericLabel(s, k, sep) /\ m \in 1..12 /\ y >= 1)
                    => period_obj = FirstDay(y, m)
        /\ \A name \in DOMAIN months_fr :
             LET y == int(SubSeq(s, Len(name) + 2, Len(s)))
             IN  (IsMonthNameLabel(s, name) /\ y >= 1)
                    => period_obj = FirstDay(y, months_fr[name])
        /\ ("/" \in Range(s) /\ ~IsNumericLabel(s, 1, "/")
                             /\ ~IsNumericLabel(s, 2, "/"))
             => period_obj = Sentinel

\* 'FEVRIER 2024' with its accent, in capitals, has been resolved to
\* 1 February 2024.
C7_Witness ==
    /\ period_str = <<"F", "E_ACUTE", "V", "R", "I", "E", "R", " ",
                      "2", "0", "2", "4">>
    /\ period_obj = FirstDay(2024, 2)

\* A label one of the three formats can resolve: a numeric label with a month
\* of the calendar, or a month name first and a four-digit year last.
C6_Resolvable(s) ==
    \/ \E k \in {1, 2}, sep \in {"-", "/"} :
         IsNumericLabel(s, k, sep) /\ int(SubSeq(s, 1, k)) \in 1..12
    \/ \E name \in DOMAIN months_fr :
         /\ StartsWithMonth(s, name)
         /\ Len(s) >= Len(name) + 5
         /\ s[Len(s) - 4] = " "
         /\ IsNumeral(SubSeq(s, Len(s) - 3, Len(s)))

\* C6: parse_period never raises, and a label that matches none of the
\* recognised formats, or matches one with an impossible month, resolves to
\* the sentinel January 2000.
C6_SentinelOnFailure ==
    period_obj # NoResult =>
        /\ period_obj.kind = "datetime"
        /\ ~C6_Resolvable(period_str) => period_obj = Sentinel

-----------------------------------------------------------------------------
(* analysis.py: ConsistencyReport, analyze_continuity                       *)
(* A statement is the dict main.py hands over: id, periode (label) and the *)
(* two balances, floats of the store, each represented by the number of    *)
(* thousandths its str() shows.                                            *)

DigitChar(d) == <<"0", "1", "2", "3", "4", "5", "6", "7", "8", "9">>[d + 1]

\* The decimal digits of a natural number.
RECURSIVE digits_of(_)
digits_of(n) ==
    IF n < 10 THEN << DigitChar(n) >>
    ELSE Append(digits_of(n \div 10), DigitChar(n % 10))

\* str(x) of a float: sign, integer digits, '.', and the fractional digits
\* without trailing zeros, one digit at least ('1000.0', '1.01').
str_float(v) ==
    LET a == Abs(v)
        fp == a % 1000
        frac3 == << DigitChar(fp \div 100), DigitChar((fp \div 10) % 10),
                    DigitChar(fp % 10) >>
        frac == IF fp % 100 = 0 THEN SubSeq(frac3, 1, 1)
                ELSE IF fp % 10 = 0 THEN SubSeq(frac3, 1, 2)
                ELSE frac3
    IN  (IF v < 0 THEN <<"-">> ELSE << >>) \o digits_of(a \div 1000)
            \o <<".">> \o frac

RECURSIVE pow10(_)
pow10(n) == IF n = 0 THEN 1 ELSE 10 * pow10(n - 1)

\* Decimal(text) of a signed decimal numeral with at most three fractional
\* digits, in thousandths.
Decimal(s) ==
    LET body == IF s[1] = "-" THEN Tail(s) ELSE s
        dot == CHOOSE i \in 1..Len(body) : body[i] = "."
        ip == SubSeq(body, 1, dot - 1)
        fr == SubSeq(body, dot + 1, Len(body))
    IN  (IF s[1] = "-" THEN -1 ELSE 1)
            * (int(ip) * 1000 + int(fr) * pow10(3 - Len(fr)))

balances_consistent_inclusive(cur_end, next_start) ==
    Abs(cur_end - next_start) <= Tolerance

\* line 14: abs(current_end_balance - next_start_balance) < Decimal('0.01')
balances_consistent(cur_end, next_start) ==
    Abs(cur_end - next_start) < Tolerance

months_diff_ignoring_year(cur, nxt) == nxt.month - cur.month

\* lines 18-19
months_diff(cur, nxt) ==
    (nxt.year - cur.year) * 12 + (nxt.month - cur.month)

\* ConsistencyReport.__init__
ConsistencyReport(current, next_releve) ==
    LET current_end_balance == Decimal(str_float(current.solde_final))
        next_start_balance == Decimal(str_float(next_releve.solde_initial))
    IN  [current_period |-> current.period_obj,
         next_period |-> next_releve.period_obj,
         current_end_balance |-> current_end_balance,
         next_start_balance |-> next_start_balance,
         is_consistent |->
             balances_consistent(current_end_balance, next_start_balance),
         gap |-> next_start_balance - current_end_balance,
         months_diff |->
             months_diff(current.period_obj, next_releve.period_obj),
         is_consecutive |->
             months_diff(current.period_obj, next_releve.period_obj) = 1]

\* datetime.__lt__
datetime_lt(a, b) ==
    \/ a.year < b.year
    \/ a.year = b.year /\ a.month < b.month
    \/ a.year = b.year /\ a.month = b.month /\ a.day < b.day

\* One step of the stable sort: x goes after every element that is not
\* greater than it.
RECURSIVE insert_by_period(_, _)
insert_by_period(x, sorted_part) ==
    IF sorted_part = << >> THEN << x >>
    ELSE IF datetime_lt(x.period_obj, Head(sorted_part).period_obj)
         THEN << x >> \o sorted_part
         ELSE << Head(sorted_part) >> \o insert_by_period(x, Tail(sorted_part))

RECURSIVE sort_prefix(_, _)
sort_prefix(rs, n) ==
    IF n = 0 THEN << >> ELSE insert_by_period(rs[n], sort_prefix(rs, n - 1))

sorted_unchanged(rs) == rs

\* sorted(enriched, key=lambda x: x['period_obj']): stable, ascending
sorted_by_period(rs) == sort_prefix(rs, Len(rs))

range_skipping_first(m) == [i \in 1..(m - 1) |-> i]

\* range(m): 0, 1, ..., m - 1, and nothing when m <= 0
range(m) == [i \in 1..m |-> i - 1]

\* r.copy() with r_copy['period_obj'] = parse_period(r['periode'])
enrich(r) ==
    [id |-> r.id, periode |-> r.periode, solde_initial |-> r.solde_initial,
     solde_final |-> r.solde_final, period_obj |-> parse_period(r.periode)]

analyze_continuity_from_first(rs) ==
    LET enriched == [i \in 1..Len(rs) |-> enrich(rs[i])] IN
    IF \E i \in 1..Len(rs) : enriched[i].period_obj.kind = "raise"
    THEN Raise("ValueError")
    ELSE LET sorted_releves == sorted_by_period(enriched)
             idx == range(Len(sorted_releves) - 1)
         IN  [kind |-> "reports",
              list |-> [k \in 1..Len(idx) |->
                          ConsistencyReport(sorted_releves[1],
                                            sorted_releves[idx[k] + 2])]]

\* analyze_continuity: an exception of parse_period would leave the function.
analyze_continuity(rs) ==
    LET enriched == [i \in 1..Len(rs) |-> enrich(rs[i])] IN
    IF \E i \in 1..Len(rs) : enriched[i].period_obj.kind = "raise"
    THEN Raise("ValueError")
    ELSE LET sorted_releves == sorted_by_period(enriched)
             idx == range(Len(sorted_releves) - 1)
         IN  [kind |-> "reports",
              list |-> [k \in 1..Len(idx) |->
                          ConsistencyReport(sorted_releves[idx[k] + 1],
                                            sorted_releves[idx[k] + 2])]]

dict_alias(heap, ref) == [heap |-> heap, ref |-> ref]

\* r.copy(), line 63: a new dict with the entries of r.  The heap is the
\* sequence of the dicts there are, a reference is an index into it.
dict_copy(heap, ref) == [heap |-> Append(heap, heap[ref]), ref |-> Len(heap) + 1]

\* lines 61-65 on the heap: for each reference of the list, the copy, the
\* entry period_obj written through the reference r_copy, and the append to
\* the new list enriched.
RECURSIVE enrich_loop(_, _, _)
enrich_loop(heap, refs, i) ==
    IF i > Len(refs) THEN [heap |-> heap, enriched |-> << >>]
    ELSE LET r_copy == dict_copy(heap, refs[i])
             written == [r_copy.heap EXCEPT ![r_copy.ref] = enrich(@)]
             rest == enrich_loop(written, refs, i + 1)
         IN  [heap |-> rest.heap, enriched |-> << r_copy.ref >> \o rest.enriched]

\* The caller's list after analyze_continuity(releves): the list object is
\* only iterated (line 62; enriched and sorted(...) at line 68 are new lists),
\* and its dicts are what the heap holds for them after lines 61-65.
releves_after(rs) ==
    LET refs == [i \in 1..Len(rs) |-> i]
        after == enrich_loop(rs, refs, 1)
    IN  [i \in 1..Len(rs) |-> after.heap[refs[i]]]

\* Labels of the statements of one account: the three formats, two labels of
\* the same month, a year change, a missing month and a label that does not
\* resolve.
ContinuityLabels ==
    { <<"1", "2", "/", "2", "0", "2", "3">>,
      <<"0", "1", "-", "2", "0", "2", "4">>,
      <<"J", "a", "n", "v", "i", "e", "r", " ", "2", "0", "2", "4">>,
      <<"0", "3", "/", "2", "0", "2", "4">>,
      <<"1", "3", "-", "2", "0", "2", "4">> }

\* (solde_initial, solde_final) of a statement: 1.0, 1.01 and 1.019.
BalancePairs == { <<1000, 1000>>, <<1010, 1010>>, <<1000, 1019>> }

\* main.py 425: one more statement of the account is in the list.
AddReleve ==
    /\ reports = NoResult
    /\ Len(releves) < MaxReleves
    /\ \E label \in ContinuityLabels, b \in BalancePairs :
         releves' = Append(releves,
                           [id |-> Len(releves) + 1, periode |-> label,
                            solde_initial |-> b[1], solde_final |-> b[2]])
    /\ UNCHANGED << releve, coherence, period_str, period_obj, reports,
                    transactions_list, df, account_releves, db_transactions,
                    selected_periodes, ledger,
                    text_vars, store_vars >>

\* main.py 434 (and the tests): analyze_continuity(releves)
CallAnalyzeContinuity ==
    /\ reports = NoResult
    /\ reports' = analyze_continuity(releves)
    /\ releves' = releves_after(releves)
    /\ UNCHANGED << releve, coherence, period_str, period_obj,
                    transactions_list, df, account_releves, db_transactions,
                    selected_periodes, ledger,
                    text_vars, store_vars >>

InitContinuity ==
    /\ releves = << >>
    /\ reports = NoResult
    /\ CoherenceIdle /\ PeriodIdle /\ MergeIdle /\ LedgerIdle /\ TextIdle
    /\ StoreVarsIdle

NextContinuity == AddReleve \/ CallAnalyzeContinuity

SpecContinuity == InitContinuity /\ [][NextContinuity]_vars

-----------------------------------------------------------------------------
(* C2 - C5: the reports of analyze_continuity                               *)

\* What each label of the account resolves to.
Resolved == [label \in ContinuityLabels |-> parse_period(label)]

\* The months the labels of a list resolve to, counted from year 0.
ResolvedMonths(rs) ==
    [i \in 1..Len(rs) |->
        12 * Resolved[rs[i].periode].year + Resolved[rs[i].periode].month]

DistinctMonths(rs) ==
    LET mon == ResolvedMonths(rs) IN
    \A i, j \in 1..Len(rs) : i # j => mon[i] # mon[j]

\* C2: when the periods resolve to pairwise distinct months, report k pairs the
\* k-th and (k+1)-th statements in ascending order of resolved period, the
\* earlier as 'current' and the later as 'next', and every order of the input
\* list gives the same reports.
C2_OrderIndependent ==
    (reports # NoResult /\ DistinctMonths(releves)) =>
        LET mon == ResolvedMonths(releves)
            \* the statement that has exactly k - 1 statements of an earlier month
            Ranked(k) ==
                CHOOSE i \in 1..Len(releves) :
                    Cardinality({ j \in 1..Len(releves) : mon[j] < mon[i] })
                        = k - 1
        IN  /\ reports.kind = "reports"
            /\ \A k \in 1..Len(reports.list) :
                 LET rep == reports.list[k]
                     cur == Ranked(k)
                     nxt == Ranked(k + 1)
                 IN  /\ 12 * rep.current_period.year
                            + rep.current_period.month = mon[cur]
                     /\ 12 * rep.next_period.year
                            + rep.next_period.month = mon[nxt]
                     /\ rep.current_end_balance = releves[cur].solde_final
                     /\ rep.next_start_balance = releves[nxt].solde_initial
            /\ \A other \in Orders(releves) :
                 analyze_continuity(other) = reports

\* Three statements of distinct months, handed over latest first, have been
\* analysed.
C2_Witness ==
    /\ reports # NoResult
    /\ Len(releves) = 3
    /\ ResolvedMonths(releves)[1] > ResolvedMonths(releves)[2]
    /\ ResolvedMonths(releves)[2] > ResolvedMonths(releves)[3]
    /\ Len(reports.list) = 2

\* C3: n statements give exactly n - 1 reports when n >= 2, and an empty
\* sequence, without an exception, when n is 0 or 1.
C3_ReportCount ==
    reports # NoResult =>
        /\ reports.kind = "reports"
        /\ Len(releves) >= 2 => Len(reports.list) = Len(releves) - 1
        /\ Len(releves) \in {0, 1} => reports.list = << >>

\* Three statements have been analysed into two reports.
C3_Witness ==
    /\ reports # NoResult
    /\ Len(releves) = 3
    /\ Len(reports.list) = 2

\* C4: every report pairs two statements of the list, its gap is the later
\* statement's solde_initial minus the earlier statement's solde_final, and it
\* is consistent exactly when |gap| < 0.01; a gap of 0.01 either way is
\* inconsistent.
C4_GapAndConsistency ==
    reports # NoResult =>
        LET resolved == [i \in 1..Len(releves) |-> Resolved[releves[i].periode]]
        IN
        \A k \in 1..Len(reports.list) :
            LET rep == reports.list[k] IN
            /\ \E i, j \in 1..Len(releves) :
                 /\ i # j
                 /\ resolved[i] = rep.current_period
                 /\ resolved[j] = rep.next_period
                 /\ rep.gap = releves[j].solde_initial - releves[i].solde_final
            /\ rep.is_consistent <=> (-Tolerance < rep.gap /\ rep.gap < Tolerance)
            /\ (rep.gap = Tolerance \/ rep.gap = -Tolerance) => ~rep.is_consistent

\* A report with a gap of exactly +0.01 and another with exactly -0.01, both
\* inconsistent.
C4_Witness ==
    /\ reports # NoResult
    /\ \E k \in 1..Len(reports.list) :
         reports.list[k].gap = Tolerance /\ ~reports.list[k].is_consistent
    /\ \E k \in 1..Len(reports.list) :
         reports.list[k].gap = -Tolerance /\ ~reports.list[k].is_consistent

\* The month after (year, month) in the calendar.
IsNextMonth(cur, nxt) ==
    \/ cur.month = 12 /\ nxt.year = cur.year + 1 /\ nxt.month = 1
    \/ cur.month < 12 /\ nxt.year = cur.year /\ nxt.month = cur.month + 1

\* C5: months_diff is 12 * (later year - earlier year) + (later month -
\* earlier month) and is_consecutive holds exactly when it is 1: December then
\* January of the next year is consecutive, the same month twice or a missing
\* month is not.
C5_MonthsDiff ==
    reports # NoResult =>
        \A k \in 1..Len(reports.list) :
            LET rep == reports.list[k]
                cur == rep.current_period
                nxt == rep.next_period
            IN  /\ rep.months_diff =
                     (12 * nxt.year + nxt.month) - (12 * cur.year + cur.month)
                /\ rep.is_consecutive <=> rep.months_diff = 1
                /\ rep.is_consecutive <=> IsNextMonth(cur, nxt)
                /\ (cur.year = nxt.year /\ cur.month = nxt.month)
                      => ~rep.is_consecutive

\* December 2023 followed by January 2024 has been reported consecutive, and
\* in the same analysis two statements of January 2024 have not.
C5_Witness ==
    /\ reports # NoResult
    /\ \E k \in 1..Len(reports.list) :
         /\ reports.list[k].current_period = FirstDay(2023, 12)
         /\ reports.list[k].next_period = FirstDay(2024, 1)
         /\ reports.list[k].is_consecutive
    /\ \E k \in 1..Len(reports.list) :
         /\ reports.list[k].months_diff = 0
         /\ ~reports.list[k].is_consecutive

-----------------------------------------------------------------------------
(* analysis.py: merge_statements                                            *)
(* A row of the DataFrame keeps the index label it got when the frame was  *)
(* built (0, 1, ...) and the columns of its transaction.                   *)

\* all_tx: the batches one after the other
RECURSIVE extend_all(_)
extend_all(batches) ==
    IF batches = << >> THEN << >>
    ELSE Head(batches) \o extend_all(Tail(batches))

\* pd.DataFrame(all_tx)
DataFrame(all_tx) ==
    [i \in 1..Len(all_tx) |->
        [index |-> i - 1, date |-> all_tx[i].date, amount |-> all_tx[i].amount]]

\* pd.to_datetime(text, format='%Y-%m-%d'), one value: four digits, two
\* digits and two digits that name a day of the calendar, or ValueError.
to_datetime(text) ==
    IF /\ Len(text) = 10
       /\ IsNumeral(SubSeq(text, 1, 4)) /\ text[5] = "-"
       /\ IsNumeral(SubSeq(text, 6, 7)) /\ text[8] = "-"
       /\ IsNumeral(SubSeq(text, 9, 10))
    THEN datetime(int(SubSeq(text, 1, 4)), int(SubSeq(text, 6, 7)),
                  int(SubSeq(text, 9, 10)))
    ELSE Raise("ValueError")

sort_values_descending(rows) ==
    { p \in Orders(rows) :
        \A i \in 1..(Len(p) - 1) :
            ~datetime_lt(to_datetime(p[i].date), to_datetime(p[i + 1].date)) }

\* df.sort_values('date_obj'): kind defaults to 'quicksort', which is not a
\* stable sort, so rows of equal date may come out in any order.  The value is
\* the set of frames the call can return.
sort_values(rows) ==
    { p \in Orders(rows) :
        \A i \in 1..(Len(p) - 1) :
            ~datetime_lt(to_datetime(p[i + 1].date), to_datetime(p[i].date)) }

\* merge_statements: the set of frames the call can return.
merge_statements(batches) ==
    LET all_tx == extend_all(batches)
        frame == DataFrame(all_tx)
    IN  IF all_tx = << >>
        THEN { [kind |-> "DataFrame", rows |-> << >>] }
        ELSE IF \E i \in 1..Len(frame) : to_datetime(frame[i].date).kind = "raise"
        THEN { [kind |-> "DataFrame", rows |-> frame] }     \* except: pass
        ELSE { [kind |-> "DataFrame", rows |-> p] : p \in sort_values(frame) }

\* Transactions handed to the merge: two of the same day, an earlier one and
\* one whose date is no day of the calendar.
MergeTransactions ==
    { [date |-> <<"2", "0", "2", "4", "-", "0", "1", "-", "0", "5">>,
       amount |-> 100],
      [date |-> <<"2", "0", "2", "4", "-", "0", "1", "-", "0", "5">>,
       amount |-> 200],
      [date |-> <<"2", "0", "2", "3", "-", "1", "2", "-", "3", "1">>,
       amount |-> 50],
      [date |-> <<"2", "0", "2", "4", "-", "0", "2", "-", "3", "0">>,
       amount |-> 10] }

\* The caller starts one more batch.
AddBatch ==
    /\ df = NoResult
    /\ Len(transactions_list) < MaxBatches
    /\ transactions_list' = Append(transactions_list, << >>)
    /\ UNCHANGED << releve, coherence, period_str, period_obj, releves,
                    reports, df, account_releves, db_transactions,
                    selected_periodes, ledger,
                    text_vars, store_vars >>

\* The caller puts one more transaction in the batch started last.
AddBatchTransaction ==
    /\ df = NoResult
    /\ transactions_list # << >>
    /\ Len(extend_all(transactions_list)) < MaxRows
    /\ \E t \in MergeTransactions :
         transactions_list' =
             [transactions_list EXCEPT ![Len(transactions_list)] = Append(@, t)]
    /\ UNCHANGED << releve, coherence, period_str, period_obj, releves,
                    reports, df, account_releves, db_transactions,
                    selected_periodes, ledger,
                    text_vars, store_vars >>

\* merge_statements(transactions_list)
CallMergeStatements ==
    /\ df = NoResult
    /\ df' \in merge_statements(transactions_list)
    /\ UNCHANGED << releve, coherence, period_str, period_obj, releves,
                    reports, transactions_list, account_releves,
                    db_transactions, selected_periodes, ledger,
                    text_vars, store_vars >>

InitMerge ==
    /\ transactions_list = << >>
    /\ df = NoResult
    /\ CoherenceIdle /\ PeriodIdle /\ ContinuityIdle /\ LedgerIdle /\ TextIdle
    /\ StoreVarsIdle

NextMerge == AddBatch \/ AddBatchTransaction \/ CallMergeStatements

SpecMerge == InitMerge /\ [][NextMerge]_vars

-----------------------------------------------------------------------------
(* C8, C9: the merged table                                                 *)

\* Every date handed over is a valid YYYY-MM-DD text.
AllDatesValid ==
    \A b \in 1..Len(transactions_list) :
        \A j \in 1..Len(transactions_list[b]) :
            to_datetime(transactions_list[b][j].date).kind = "datetime"

\* Number of transactions in the batches before batch b.
RECURSIVE RowsBefore(_)
RowsBefore(b) ==
    IF b = 1 THEN 0 ELSE RowsBefore(b - 1) + Len(transactions_list[b - 1])

\* A date text as a number that grows with time.
DayNumber(text) ==
    10000 * int(SubSeq(text, 1, 4)) + 100 * int(SubSeq(text, 6, 7))
        + int(SubSeq(text, 9, 10))

\* C8: the merged table has exactly one row per input transaction, each with
\* the date and columns of its transaction, in non-decreasing date order when
\* every date is valid, whatever the order of the batches and inside them; no
\* batch, or only empty batches, gives an empty table; the call never raises.
C8_MergeRows ==
    df # NoResult =>
        LET n == RowsBefore(Len(transactions_list) + 1) IN
        /\ df.kind = "DataFrame"
        /\ Len(df.rows) = n
        /\ \A b \in 1..Len(transactions_list) :
             \A j \in 1..Len(transactions_list[b]) :
                Cardinality({ i \in 1..Len(df.rows) :
                    /\ df.rows[i].index = RowsBefore(b) + j - 1
                    /\ df.rows[i].date = transactions_list[b][j].date
                    /\ df.rows[i].amount = transactions_list[b][j].amount }) = 1
        /\ AllDatesValid =>
             \A i \in 1..(Len(df.rows) - 1) :
                DayNumber(df.rows[i].date) <= DayNumber(df.rows[i + 1].date)
        /\ n = 0 => df.rows = << >>

\* Two batches, the first holding a later date than the second, all dates
\* valid, have been merged into a table of at least three rows.
C8_Witness ==
    /\ df # NoResult
    /\ AllDatesValid
    /\ Len(transactions_list) = 2
    /\ Len(df.rows) >= 3
    /\ transactions_list[1] # << >> /\ transactions_list[2] # << >>
    /\ DayNumber(transactions_list[1][1].date)
          > DayNumber(transactions_list[2][1].date)

\* C9: the date sort is stable: two transactions of the same date appear in the
\* merged table in the order of their source batches and, within a batch, in
\* their original order.
C9_StableSort ==
    (df # NoResult /\ AllDatesValid) =>
        \A i, j \in 1..Len(df.rows) :
            (i < j /\ df.rows[i].date = df.rows[j].date)
                => df.rows[i].index < df.rows[j].index

-----------------------------------------------------------------------------
(* main.py: show_analysis_section, "Fusion & Export"                        *)
(* Amounts are the floats of the store, represented by their thousandths;  *)
(* the additions are taken to be exact.                                    *)

\* ord() of the characters of the labels and dates of the store.
ord(c) ==
    CASE c = "-" -> 45 [] c = "/" -> 47 [] OTHER -> 48 + DigitVal(c)

\* a < b for two texts: str.__lt__, by code point, a proper prefix first.
RECURSIVE str_lt(_, _)
str_lt(a, b) ==
    IF b = << >> THEN FALSE
    ELSE IF a = << >> THEN TRUE
    ELSE IF Head(a) = Head(b) THEN str_lt(Tail(a), Tail(b))
    ELSE ord(Head(a)) < ord(Head(b))

RECURSIVE insert_by_periode(_, _)
insert_by_periode(x, sorted_part) ==
    IF sorted_part = << >> THEN << x >>
    ELSE IF str_lt(x.periode, Head(sorted_part).periode)
         THEN << x >> \o sorted_part
         ELSE << Head(sorted_part) >> \o insert_by_periode(x, Tail(sorted_part))

\* line 463: sorted(account_releves, key=lambda x: x['periode'])
RECURSIVE sorted_by_periode(_)
sorted_by_periode(rs) ==
    IF rs = << >> THEN << >>
    ELSE insert_by_periode(rs[Len(rs)],
                           sorted_by_periode(SubSeq(rs, 1, Len(rs) - 1)))

\* line 470: default=list(periode_options.keys())
default_selection(rs) ==
    LET sorted_releves == sorted_by_periode(rs) IN
    [i \in 1..Len(sorted_releves) |-> sorted_releves[i].id]

\* lines 478-484: the transactions of the selected statements, statement by
\* statement in the order of sorted_releves, each tagged with its period.
RECURSIVE all_transactions(_, _, _)
all_transactions(sorted_releves, selected, txs) ==
    IF sorted_releves = << >> THEN << >>
    ELSE LET r == Head(sorted_releves)
             tagged == [i \in 1..Len(txs[r.id]) |->
                          [date |-> txs[r.id][i].date,
                           debit |-> txs[r.id][i].debit,
                           credit |-> txs[r.id][i].credit,
                           periode |-> r.periode]]
         IN  (IF r.id \in Range(selected) THEN tagged ELSE << >>)
                \o all_transactions(Tail(sorted_releves), selected, txs)

\* pd.to_datetime(text, errors='coerce'), one value: NaT for a text that is
\* no day of the calendar.
to_datetime_coerce(text) ==
    LET d == to_datetime(text) IN
    IF d.kind = "raise" THEN [kind |-> "NaT"] ELSE d

\* a may stand before b in the result of sort_values('date'): NaT goes last
\* (na_position='last'), dates ascend.
may_precede(a, b) ==
    \/ b.kind = "NaT"
    \/ a.kind = "datetime" /\ b.kind = "datetime" /\ ~datetime_lt(b, a)

\* lines 491-492: df_merged.sort_values('date') on the converted dates; kind
\* defaults to 'quicksort', which is not stable.  The value is the set of
\* frames the call can return.
sort_values_date(rows) ==
    { p \in Orders(rows) :
        \A i \in 1..(Len(p) - 1) :
            may_precede(to_datetime_coerce(p[i].date),
                        to_datetime_coerce(p[i + 1].date)) }

first_sorted_releve(sorted_releves, selected) ==
    sorted_releves[CHOOSE i \in 1..Len(sorted_releves) :
        /\ sorted_releves[i].id \in Range(selected)
        /\ \A j \in 1..(i - 1) : sorted_releves[j].id \notin Range(selected)]

\* line 495: next(r for r in sorted_releves if r['id'] == selected_periodes[0])
first_releve(sorted_releves, selected) ==
    sorted_releves[CHOOSE i \in 1..Len(sorted_releves) :
        /\ sorted_releves[i].id = selected[1]
        /\ \A j \in 1..(i - 1) : sorted_releves[j].id # selected[1]]

\* lines 498-503: the running balance after each row
RECURSIVE soldes(_, _)
soldes(solde, rows) ==
    IF rows = << >> THEN << >>
    ELSE LET next_solde == solde + Head(rows).credit - Head(rows).debit
         IN  << next_solde >> \o soldes(next_solde, Tail(rows))

\* df_merged['debit'].sum() and df_merged['credit'].sum()
RECURSIVE column_sum(_, _)
column_sum(rows, column) ==
    IF rows = << >> THEN 0
    ELSE Head(rows)[column] + column_sum(Tail(rows), column)

\* lines 474-537: what a click on the merge button can show.
fusionner(rs, txs, selected) ==
    IF selected = << >>
    THEN { [kind |-> "warning", text |-> "select_a_period"] }
    ELSE LET sorted_releves == sorted_by_periode(rs)
             all_tx == all_transactions(sorted_releves, selected, txs)
             solde_initial == first_releve(sorted_releves, selected).solde_initial
         IN  IF all_tx = << >>
             THEN { [kind |-> "warning", text |-> "no_transaction"] }
             ELSE { [kind |-> "ledger",
                     rows |-> [i \in 1..Len(df_merged) |->
                                 [date |-> df_merged[i].date,
                                  debit |-> df_merged[i].debit,
                                  credit |-> df_merged[i].credit,
                                  periode |-> df_merged[i].periode,
                                  solde |-> soldes(solde_initial, df_merged)[i]]],
                     total_debit |-> column_sum(df_merged, "debit"),
                     total_credit |-> column_sum(df_merged, "credit"),
                     solde_final |->
                         soldes(solde_initial, df_merged)[Len(df_merged)]]
                    : df_merged \in sort_values_date(all_tx) }

\* The two statements of the audited account.
LedgerIds == {1, 2}

LedgerAccounts ==
    { << [id |-> 1, periode |-> <<"0", "2", "-", "2", "0", "2", "4">>,
          solde_initial |-> 1000],
         [id |-> 2, periode |-> p, solde_initial |-> 500] >> :
        p \in { <<"0", "1", "-", "2", "0", "2", "4">>,
                <<"1", "2", "-", "2", "0", "2", "3">> } }

\* Stored transactions: two of the same day, a later one, and one whose date
\* is no day of the calendar.
LedgerTransactions ==
    { [date |-> <<"2", "0", "2", "4", "-", "0", "1", "-", "0", "5">>,
       debit |-> 0, credit |-> 100],
      [date |-> <<"2", "0", "2", "4", "-", "0", "1", "-", "0", "5">>,
       debit |-> 30, credit |-> 0],
      [date |-> <<"2", "0", "2", "4", "-", "0", "2", "-", "1", "5">>,
       debit |-> 0, credit |-> 200],
      [date |-> <<"2", "0", "2", "4", "-", "0", "2", "-", "3", "0">>,
       debit |-> 10, credit |-> 0] }

\* database.py: one more transaction of a statement is stored; what
\* get_releve_transactions returns stays in ORDER BY date.
StoreTransaction ==
    /\ ledger = NoResult
    /\ \E id \in LedgerIds, t \in LedgerTransactions :
         /\ Len(db_transactions[id]) < MaxStoredRows
         /\ IF db_transactions[id] = << >> THEN TRUE
            ELSE ~str_lt(t.date,
                         db_transactions[id][Len(db_transactions[id])].date)
         /\ db_transactions' = [db_transactions EXCEPT ![id] = Append(@, t)]
    /\ UNCHANGED << releve, coherence, period_str, period_obj, releves,
                    reports, transactions_list, df, account_releves,
                    selected_periodes, ledger,
                    text_vars, store_vars >>

\* The user removes a period from the multiselect.
Deselect ==
    /\ ledger = NoResult
    /\ \E id \in Range(selected_periodes) :
         selected_periodes' = SelectSeq(selected_periodes, LAMBDA x : x # id)
    /\ UNCHANGED << releve, coherence, period_str, period_obj, releves,
                    reports, transactions_list, df, account_releves,
                    db_transactions, ledger,
                    text_vars, store_vars >>

\* The user adds a period to the multiselect: it goes last.
Select ==
    /\ ledger = NoResult
    /\ \E id \in LedgerIds \ Range(selected_periodes) :
         selected_periodes' = Append(selected_periodes, id)
    /\ UNCHANGED << releve, coherence, period_str, period_obj, releves,
                    reports, transactions_list, df, account_releves,
                    db_transactions, ledger,
                    text_vars, store_vars >>

\* A click on the merge button.
Fusionner ==
    /\ ledger = NoResult
    /\ ledger' \in fusionner(account_releves, db_transactions, selected_periodes)
    /\ UNCHANGED << releve, coherence, period_str, period_obj, releves,
                    reports, transactions_list, df, account_releves,
                    db_transactions, selected_periodes,
                    text_vars, store_vars >>

InitLedger ==
    /\ account_releves \in LedgerAccounts
    /\ db_transactions = [id \in LedgerIds |-> << >>]
    /\ selected_periodes = default_selection(account_releves)
    /\ ledger = NoResult
    /\ CoherenceIdle /\ PeriodIdle /\ ContinuityIdle /\ MergeIdle /\ TextIdle
    /\ StoreVarsIdle

NextLedger == StoreTransaction \/ Deselect \/ Select \/ Fusionner

SpecLedger == InitLedger /\ [][NextLedger]_vars

-----------------------------------------------------------------------------
(* C10: the running balance of the merged ledger                            *)

\* The statement the caller selected first.
FirstSelected ==
    CHOOSE r \in Range(account_releves) : r.id = selected_periodes[1]

\* credit - debit summed over the first k rows.
RECURSIVE SignedSum(_, _)
SignedSum(rows, k) ==
    IF k = 0 THEN 0
    ELSE SignedSum(rows, k - 1) + rows[k].credit - rows[k].debit

\* One column summed over the stored transactions of the selected statements.
StoredSum(column) ==
    LET RECURSIVE Sum(_, _)
        Sum(txs, k) == IF k = 0 THEN 0 ELSE Sum(txs, k - 1) + txs[k][column]
        RECURSIVE Over(_)
        Over(ids) ==
            IF ids = << >> THEN 0
            ELSE Sum(db_transactions[Head(ids)], Len(db_transactions[Head(ids)]))
                    + Over(Tail(ids))
    IN  Over(selected_periodes)

-----------------------------------------------------------------------------
(* C11: merging nothing                                                     *)

\* C11: a merge over zero statements fails with an EmptySelection error, while
\* a merge over one or more statements that hold no transaction returns an
\* empty table and no error.
C11_EmptySelection ==
    df # NoResult =>
        /\ transactions_list = << >> => df = Raise("EmptySelection")
        /\ (transactions_list # << >> /\ extend_all(transactions_list) = << >>)
              => (df.kind = "DataFrame" /\ df.rows = << >>)

-----------------------------------------------------------------------------
(* charts.py: categorize_transaction                                        *)

LowerCase ==
    <<"a", "b", "c", "d", "e", "f", "g", "h", "i", "j", "k", "l", "m",
      "n", "o", "p", "q", "r", "s", "t", "u", "v", "w", "x", "y", "z">>

UpperCase ==
    <<"A", "B", "C", "D", "E", "F", "G", "H", "I", "J", "K", "L", "M",
      "N", "O", "P", "Q", "R", "S", "T", "U", "V", "W", "X", "Y", "Z">>

\* str.upper(), one character: a letter with a capital becomes that capital
\* (e_acute stands for the letter e with an acute accent), the rest stays.
upper_char(c) ==
    IF \E i \in 1..26 : LowerCase[i] = c
    THEN UpperCase[CHOOSE i \in 1..26 : LowerCase[i] = c]
    ELSE IF c = "e_acute" THEN "E_ACUTE"
    ELSE IF c = "e_grave" THEN "E_GRAVE"
    ELSE IF c = "e_circ" THEN "E_CIRC"
    ELSE c

\* str.upper()
upper(s) == [i \in 1..Len(s) |-> upper_char(s[i])]

\* sub in s, for two texts
contains(sub, s) ==
    \E i \in 0..(Len(s) - Len(sub)) : SubSeq(s, i + 1, i + Len(sub)) = sub

\* CATEGORIES, in the order of its declaration (a dict keeps that order).  The
\* names are written without their accents.
CATEGORIES ==
    <<
      [category |-> "Virements",
       keywords |-> <<
         <<"V", "I", "R", "E", "M", "E", "N", "T">>,
         <<"V", "I", "R">>,
         <<"T", "R", "A", "N", "S", "F", "E", "R", "T">>,
         <<"V", "E", "R", "S", " ", "C", "L", "I", "E", "N", "T">> >>],
      [category |-> "Salaires",
       keywords |-> <<
         <<"S", "A", "L", "A", "I", "R", "E">>,
         <<"P", "A", "I", "E">>,
         <<"R", "E", "M", "U", "N", "E", "R", "A", "T", "I", "O", "N">> >>],
      [category |-> "Prelevements",
       keywords |-> <<
         <<"P", "R", "E", "L", "E", "V", "E", "M", "E", "N", "T">>,
         <<"P", "R", "L", "V">>,
         <<"S", "E", "P", "A">> >>],
      [category |-> "Frais Bancaires",
       keywords |-> <<
         <<"F", "R", "A", "I", "S">>,
         <<"C", "O", "M", "M", "I", "S", "S", "I", "O", "N">>,
         <<"A", "G", "I", "O", "S">>,
         <<"C", "O", "T", "I", "S", "A", "T", "I", "O", "N">> >>],
      [category |-> "Loyers",
       keywords |-> <<
         <<"L", "O", "Y", "E", "R">>,
         <<"B", "A", "I", "L">> >>],
      [category |-> "Cheques",
       keywords |-> <<
         <<"C", "H", "E", "Q", "U", "E">>,
         <<"C", "H", "Q">> >>],
      [category |-> "Retraits",
       keywords |-> <<
         <<"R", "E", "T", "R", "A", "I", "T">>,
         <<"G", "A", "B">>,
         <<"D", "A", "B">> >>],
      [category |-> "Paiements CB",
       keywords |-> <<
         <<"C", "B", " ">>,
         <<"C", "A", "R", "T", "E">>,
         <<"V", "I", "S", "A">>,
         <<"M", "A", "S", "T", "E", "R", "C", "A", "R", "D">> >>] >>

\* any(keyword in text for keyword in keywords[k:]), in the order of the list
RECURSIVE first_keyword(_, _, _)
first_keyword(keywords, k, text) ==
    IF k > Len(keywords) THEN FALSE
    ELSE IF contains(keywords[k], text) THEN TRUE
    ELSE first_keyword(keywords, k + 1, text)

\* the loop over CATEGORIES.items() from its c-th item on
RECURSIVE categorize_from(_, _)
categorize_from(c, libelle_upper) ==
    IF c > Len(CATEGORIES) THEN "Autres"
    ELSE IF first_keyword(CATEGORIES[c].keywords, 1, libelle_upper)
         THEN CATEGORIES[c].category
         ELSE categorize_from(c + 1, libelle_upper)

categorize_without_upper(text) == categorize_from(1, text)

categorize_transaction(text) == categorize_from(1, upper(text))

\* Pieces of the descriptions handed to categorize_transaction.
Fragments ==
    { <<"v", "i", "r">>, <<"p", "a", "i", "e">>, <<"c", "b">>, <<" ">>,
      <<"l", "o", "y", "e", "r">>, <<"G", "A", "B">>, <<"e_acute">> }

MaxLibelle == 8          \* characters of a description

\* The description grows by one piece.
AppendFragment ==
    /\ categorie = NoResult
    /\ \E f \in Fragments :
         /\ Len(libelle) + Len(f) <= MaxLibelle
         /\ libelle' = libelle \o f
    /\ UNCHANGED << analysis_vars, categorie, line, transaction, file_name,
                    text_lines, parsed, amount_str, amount,
                    store_vars >>

\* categorize_transaction(libelle)
CallCategorize ==
    /\ categorie = NoResult
    /\ categorie' = [kind |-> "str", value |-> categorize_transaction(libelle)]
    /\ UNCHANGED << analysis_vars, libelle, line, transaction, file_name,
                    text_lines, parsed, amount_str, amount,
                    store_vars >>

InitCategorize ==
    /\ libelle = << >>
    /\ categorie = NoResult
    /\ AnalysisIdle /\ LineIdle /\ ParseIdle /\ AmountIdle
    /\ StoreVarsIdle

NextCategorize == AppendFragment \/ CallCategorize

SpecCategorize == InitCategorize /\ [][NextCategorize]_vars

-----------------------------------------------------------------------------
(* C12                                                                      *)

\* The keyword occurs in the capitals of the description at some place.
Occurs(keyword, text) ==
    \E i \in 1..Len(text) :
        /\ i + Len(keyword) - 1 <= Len(text)
        /\ \A j \in 1..Len(keyword) : upper_char(text[i + j - 1]) = keyword[j]

\* The ranks, in declaration order, of the categories with a keyword in the
\* description.
MatchingRanks(text) ==
    { c \in 1..Len(CATEGORIES) :
        \E k \in 1..Len(CATEGORIES[c].keywords) :
            Occurs(CATEGORIES[c].keywords[k], text) }

\* C12: the category of a description is the first declared category one of
\* whose keywords is a substring of the capitals of the description, and it is
\* "Autres" exactly when no keyword of any category is such a substring; of two
\* matching categories the earlier-declared one is returned.
C12_FirstCategory ==
    categorie # NoResult =>
        LET ranks == MatchingRanks(libelle) IN
        /\ (categorie.value = "Autres") <=> (ranks = {})
        /\ ranks # {} =>
             /\ categorie.value = CATEGORIES[CHOOSE c \in ranks :
                                                \A d \in ranks : c <= d].category
             /\ \A d \in ranks :
                  \A c \in 1..(d - 1) :
                     c \in ranks => categorie.value # CATEGORIES[d].category

\* A lower-case description holding GAB (Retraits) before VIR (Virements) has
\* been categorized.
C12_Witness ==
    /\ categorie = [kind |-> "str", value |-> "Virements"]
    /\ MatchingRanks(libelle) = {1, 7}
    /\ \E i \in 1..Len(libelle) :
         /\ SubSeq(libelle, 1, 3) = <<"G", "A", "B">>
         /\ SubSeq(libelle, i, i + 2) = <<"v", "i", "r">>

-----------------------------------------------------------------------------
(* re: the regular expressions of the parsers                               *)
(* A pattern is a tree: a set of characters, any character but the newline, *)
(* the start of the text, a sequence, a repetition (greedy or lazy) or a    *)
(* numbered group.  Matching follows the order in which re tries the       *)
(* alternatives, so the first match found is the match re returns.         *)

ReSet(cs) == [t |-> "set", s |-> cs]
ReAny == [t |-> "any"]
ReBol == [t |-> "bol"]
ReCat(l) == [t |-> "cat", l |-> l]
ReAlt(l) == [t |-> "alt", l |-> l]
ReRep(r, min, max, greedy) ==
    [t |-> "rep", r |-> r, min |-> min, max |-> max, greedy |-> greedy]
ReGrp(n, r) == [t |-> "grp", n |-> n, r |-> r]

\* No bound on the number of repetitions.
Unbounded == -1

ReStar(r) == ReRep(r, 0, Unbounded, TRUE)
RePlus(r) == ReRep(r, 1, Unbounded, TRUE)
ReOpt(r) == ReRep(r, 0, 1, TRUE)

\* \s of the texts modelled: the space and the tab.
ReSpace == {" ", "\t"}

\* A literal text, each character as written.
ReLit(text) == ReCat([i \in 1..Len(text) |-> ReSet({text[i]})])

\* str.lower(), one character, over the whole alphabet.
lower_letter(c) ==
    IF \E i \in 1..26 : UpperCase[i] = c
    THEN LowerCase[CHOOSE i \in 1..26 : UpperCase[i] = c]
    ELSE IF c = "E_ACUTE" THEN "e_acute"
    ELSE IF c = "E_GRAVE" THEN "e_grave"
    ELSE IF c = "E_CIRC" THEN "e_circ"
    ELSE c

\* str.lower() over the whole alphabet
str_lower(s) == [i \in 1..Len(s) |-> lower_letter(s[i])]

\* A literal text under re.IGNORECASE.
ReLitI(text) ==
    ReCat([i \in 1..Len(text) |->
             ReSet({text[i], lower_letter(text[i]), upper_char(text[i])})])

\* The groups of a match that has not started: none has taken part.
NoGroups == [n \in 1..8 |-> << 0, 0 >>]

\* The ways pattern p matches text s from state st (a position and the
\* groups so far), in the order re tries them.
RECURSIVE re_m(_, _, _), re_each(_, _, _), re_cat(_, _, _, _),
          re_alt(_, _, _, _), re_rep(_, _, _, _), re_rep_each(_, _, _, _)
re_m(p, s, st) ==
    CASE p.t = "set" ->
           IF st.pos <= Len(s) /\ s[st.pos] \in p.s
           THEN << [st EXCEPT !.pos = @ + 1] >> ELSE << >>
      [] p.t = "any" ->
           IF st.pos <= Len(s) /\ s[st.pos] # "\n"
           THEN << [st EXCEPT !.pos = @ + 1] >> ELSE << >>
      [] p.t = "bol" -> IF st.pos = 1 THEN << st >> ELSE << >>
      [] p.t = "cat" -> re_cat(p.l, 1, s, << st >>)
      [] p.t = "alt" -> re_alt(p.l, 1, s, st)
      [] p.t = "rep" -> re_rep(p, 0, s, st)
      [] p.t = "grp" ->
           LET rs == re_m(p.r, s, st) IN
           [i \in 1..Len(rs) |->
              [rs[i] EXCEPT !.caps[p.n] = << st.pos, rs[i].pos >>]]

re_each(p, s, sts) ==
    IF sts = << >> THEN << >>
    ELSE re_m(p, s, Head(sts)) \o re_each(p, s, Tail(sts))

re_cat(l, k, s, sts) ==
    IF k > Len(l) \/ sts = << >> THEN sts
    ELSE re_cat(l, k + 1, s, re_each(l[k], s, sts))

re_alt(l, k, s, st) ==
    IF k > Len(l) THEN << >>
    ELSE re_m(l[k], s, st) \o re_alt(l, k + 1, s, st)

\* A repetition of one character class is matched at once: the run of
\* characters of the class is measured, and the repetition may stop after any
\* allowed count of them, the longest first when greedy, the shortest first
\* when lazy.  Another repetition is unfolded one round at a time.
re_rep(p, count, s, st) ==
    IF p.r.t \in {"set", "any"}
    THEN LET ok(i) == IF p.r.t = "any" THEN s[i] # "\n" ELSE s[i] \in p.r.s
             run == CHOOSE n \in 0..(Len(s) - st.pos + 1) :
                      /\ \A i \in st.pos..(st.pos + n - 1) : ok(i)
                      /\ st.pos + n <= Len(s) => ~ok(st.pos + n)
             hi == IF p.max = Unbounded \/ run < p.max THEN run ELSE p.max
         IN  IF hi < p.min THEN << >>
             ELSE [j \in 1..(hi - p.min + 1) |->
                     [st EXCEPT !.pos = IF p.greedy THEN st.pos + hi - (j - 1)
                                        ELSE st.pos + p.min + (j - 1)]]
    ELSE LET more == IF p.max = Unbounded \/ count < p.max
                     THEN re_rep_each(p, count + 1, s, re_m(p.r, s, st))
                     ELSE << >>
             stop == IF count >= p.min THEN << st >> ELSE << >>
         IN  IF p.greedy THEN more \o stop ELSE stop \o more

re_rep_each(p, count, s, sts) ==
    IF sts = << >> THEN << >>
    ELSE re_rep(p, count, s, Head(sts)) \o re_rep_each(p, count, s, Tail(sts))

\* No match: what re returns as None.
None == [kind |-> "None"]

\* pattern.match(s): the first way the pattern matches at the start of s.
re_match(p, s) ==
    LET rs == re_m(p, s, [pos |-> 1, caps |-> NoGroups]) IN
    IF rs = << >> THEN None
    ELSE [kind |-> "match", start |-> 1, end |-> rs[1].pos, caps |-> rs[1].caps]

\* pattern.search(s): the first match at the leftmost place that has one.
RECURSIVE re_search_from(_, _, _)
re_search_from(p, s, i) ==
    IF i > Len(s) + 1 THEN None
    ELSE LET rs == re_m(p, s, [pos |-> i, caps |-> NoGroups]) IN
         IF rs = << >> THEN re_search_from(p, s, i + 1)
         ELSE [kind |-> "match", start |-> i, end |-> rs[1].pos,
               caps |-> rs[1].caps]

re_search(p, s) == re_search_from(p, s, 1)

\* match.group(n): the text of the group; a group that took no part gives
\* None, which is written as the empty text (both are false in a test, and
\* no group of the patterns below matches the empty text).
group(match, s, n) ==
    IF match.caps[n] = << 0, 0 >> THEN << >>
    ELSE SubSeq(s, match.caps[n][1], match.caps[n][2] - 1)

-----------------------------------------------------------------------------
(* awb_ocr_parser.py: _clean_amount and _parse_transaction_line             *)
(* A Decimal is represented by its number of thousandths.                   *)

\* str.strip() of the texts modelled
RECURSIVE lstrip(_)
lstrip(s) ==
    IF s # << >> /\ Head(s) \in ReSpace THEN lstrip(Tail(s)) ELSE s

RECURSIVE rstrip(_)
rstrip(s) ==
    IF s # << >> /\ s[Len(s)] \in ReSpace
    THEN rstrip(SubSeq(s, 1, Len(s) - 1)) ELSE s

strip(s) == rstrip(lstrip(s))

\* str.replace(old, new) for a one-character old; new is a text.
RECURSIVE replace(_, _, _)
replace(s, old, new) ==
    IF s = << >> THEN << >>
    ELSE (IF Head(s) = old THEN new ELSE << Head(s) >>)
            \o replace(Tail(s), old, new)

\* str.split('.'): the texts between the points, empty ones included.
RECURSIVE split_point(_, _)
split_point(s, word) ==
    IF s = << >> THEN << word >>
    ELSE IF Head(s) = "." THEN << word >> \o split_point(Tail(s), << >>)
    ELSE split_point(Tail(s), Append(word, Head(s)))

\* ''.join(parts)
RECURSIVE join(_)
join(parts) == IF parts = << >> THEN << >> ELSE Head(parts) \o join(Tail(parts))

clean_amount_keeping_points(amount_text) ==
    IF amount_text = << >> THEN << "0" >>
    ELSE replace(replace(amount_text, " ", << >>), ",", << "." >>)

\* _clean_amount, lines 246-260
_clean_amount(amount_text) ==
    IF amount_text = << >> THEN << "0" >>
    ELSE LET cleaned == replace(replace(amount_text, " ", << >>), ",", << "." >>)
             parts == split_point(cleaned, << >>)
         IN  IF Len(parts) > 2
             THEN join(SubSeq(parts, 1, Len(parts) - 1))
                     \o << "." >> \o parts[Len(parts)]
             ELSE cleaned

\* Decimal(text) of a text of digits, points and whitespace: the whitespace
\* around the numeral is dropped; digits with at most one point, one digit at
\* least, make a number; anything else is decimal.InvalidOperation.  Numerals
\* of up to three fractional digits are modelled.
Decimal_str(text) ==
    LET body == strip(text)
        parts == split_point(body, << >>)
        ip == parts[1]
        fr == IF Len(parts) = 2 THEN parts[2] ELSE << >>
    IN  IF /\ Len(parts) <= 2
           /\ \A i \in 1..Len(body) : body[i] \in Digits \cup {"."}
           /\ ip \o fr # << >>
           /\ Len(fr) <= 3
        THEN [kind |-> "Decimal",
              value |-> int(ip) * 1000 + int(fr) * pow10(3 - Len(fr))]
        ELSE Raise("InvalidOperation")

\* str.zfill(2)
zfill2(s) == IF Len(s) < 2 THEN << "0" >> \o s ELSE s

\* datetime.strptime(f"{day}/{month}/{year}", "%d/%m/%Y") for a day and a
\* month of two digits and a year that is an int: %Y takes exactly four
\* digits, %d and %m refuse 00, and the day must exist.
strptime_d_m_Y(day, month, year) ==
    IF year < 1000 \/ year > 9999 THEN Raise("ValueError")
    ELSE datetime(year, int(month), int(day))

ReDigits12 == ReRep(ReSet(Digits), 1, 2, TRUE)
ReDigits4 == ReRep(ReSet(Digits), 4, 4, TRUE)

\* \d+[\s\d]*[,\.]\d{2}
ReAmount ==
    ReCat(<< RePlus(ReSet(Digits)), ReStar(ReSet(ReSpace \cup Digits)),
             ReSet({",", "."}), ReRep(ReSet(Digits), 2, 2, TRUE) >>)

\* ^[\dO]+[A-Z]{0,3}[/\|]
ReCode ==
    << ReBol, RePlus(ReSet(Digits \cup {"O"})),
       ReRep(ReSet(Range(UpperCase)), 0, 3, TRUE), ReSet({"/", "|"}) >>

\* pattern, lines 149-155
pattern ==
    ReCat(<< ReBol, ReStar(ReSet(ReSpace)) >> \o Tail(ReCode) \o
          << ReGrp(1, ReDigits12), RePlus(ReSet(ReSpace)),
             ReGrp(2, ReDigits12), ReSet({"]", "}", "|"}),
             ReStar(ReSet(ReSpace)),
             ReGrp(3, ReRep(ReAny, 1, Unbounded, FALSE)),
             RePlus(ReSet(ReSpace)),
             ReOpt(ReSet({"[", "{", "|"})),
             ReGrp(4, ReDigits12), RePlus(ReSet(ReSpace)),
             ReGrp(5, ReDigits12), RePlus(ReSet(ReSpace)),
             ReGrp(6, ReDigits4), ReStar(ReSet(ReSpace)),
             ReOpt(ReGrp(7, ReAmount)), ReStar(ReSet(ReSpace)),
             ReOpt(ReGrp(8, ReAmount)) >>)

\* alt_pattern, lines 160-163
alt_pattern ==
    ReCat(<< ReRep(ReAny, 0, Unbounded, FALSE),
             ReGrp(1, ReDigits12), RePlus(ReSet(ReSpace)),
             ReGrp(2, ReDigits12), RePlus(ReSet(ReSpace)),
             ReGrp(3, ReDigits4), RePlus(ReSet(ReSpace)),
             ReGrp(4, ReAmount), ReStar(ReSet(ReSpace)) >>)

\* ^[\dO]+[A-Z]{0,3}[/\|]\d+\s+\d+[\]\}\|]\s*, line 169
code_prefix ==
    ReCat(ReCode \o
          << RePlus(ReSet(Digits)), RePlus(ReSet(ReSpace)),
             RePlus(ReSet(Digits)), ReSet({"]", "}", "|"}),
             ReStar(ReSet(ReSpace)) >>)

\* re.sub(code_prefix, '', s): the pattern starts with ^, so at most the
\* match at the start of s is removed.
sub_code_prefix(s) ==
    LET m == re_search(code_prefix, s) IN
    IF m = None THEN s ELSE SubSeq(s, m.end, Len(s))

\* The keyword list of lines 184-187.
alt_debit_keywords ==
    << <<"F", "R", "A", "I", "S">>,
       <<"P", "R", "E", "L", "E", "V", "E", "M", "E", "N", "T">>,
       <<"T", "I", "M", "B", "R", "E">>,
       <<"P", "A", "I", "E", "M", "E", "N", "T">>,
       <<"R", "E", "T", "R", "A", "I", "T">>,
       <<"C", "O", "M", "M", "I", "S", "S", "I", "O", "N">>,
       <<"V", "I", "R", "E", "M", "E", "N", "T", " ", "E", "M", "I", "S">> >>

\* The keyword list of lines 227-230.
debit_keywords ==
    << <<"F", "R", "A", "I", "S">>,
       <<"P", "R", "E", "L", "E", "V", "E", "M", "E", "N", "T">>,
       <<"T", "I", "M", "B", "R", "E">>,
       <<"P", "A", "I", "E", "M", "E", "N", "T">>,
       <<"R", "E", "T", "R", "A", "I", "T">>,
       <<"C", "O", "M", "M", "I", "S", "S", "I", "O", "N">>,
       <<"V", "I", "R", "E", "M", "E", "N", "T", " ", "E", "M", "I", "S">>,
       <<"C", "N", "S", "S">> >>

\* any(kw in libelle_upper for kw in keywords)
any_keyword(keywords, libelle_upper) ==
    \E k \in 1..Len(keywords) : contains(keywords[k], libelle_upper)

Transaction(date, designation, debit, credit) ==
    [kind |-> "Transaction", date |-> date, designation |-> designation,
     debit |-> debit, credit |-> credit]

\* lines 159-197: the line did not match pattern.
alt_transaction_line(text) ==
    LET alt_match == re_search(alt_pattern, text) IN
    IF alt_match = None THEN None
    ELSE LET pre_date == strip(SubSeq(text, 1, alt_match.caps[1][1] - 1))
             designation == strip(sub_code_prefix(pre_date))
             day == zfill2(group(alt_match, text, 1))
             month == zfill2(group(alt_match, text, 2))
             year == int(group(alt_match, text, 3))
             amount_cleaned == _clean_amount(group(alt_match, text, 4))
             date_obj == strptime_d_m_Y(day, month, year)
             value == Decimal_str(amount_cleaned)
             is_debit == any_keyword(alt_debit_keywords, upper(designation))
         IN  IF designation = << >> THEN None
             ELSE IF date_obj.kind = "raise" \/ value.kind = "raise"
             THEN None                    \* except (ValueError, Exception)
             ELSE Transaction(date_obj, designation,
                              IF is_debit THEN value.value ELSE 0,
                              IF is_debit THEN 0 ELSE value.value)

main_transaction_line_alt_keywords(text, match) ==
    LET designation == strip(group(match, text, 3))
        date_obj == strptime_d_m_Y(zfill2(group(match, text, 4)),
                                   zfill2(group(match, text, 5)),
                                   int(group(match, text, 6)))
        amount1_str == group(match, text, 7)
        amount2_str == group(match, text, 8)
        first == Decimal_str(_clean_amount(amount1_str))
        second == Decimal_str(_clean_amount(amount2_str))
        is_debit == any_keyword(alt_debit_keywords, upper(designation))
    IN  IF date_obj.kind = "raise" THEN None
        ELSE IF amount1_str # << >> /\ amount2_str # << >>
        THEN IF first.kind = "raise" THEN first
             ELSE IF second.kind = "raise" THEN second
             ELSE IF first.value = 0 /\ second.value = 0 THEN None
             ELSE Transaction(date_obj, designation, first.value, second.value)
        ELSE IF amount1_str # << >>
        THEN IF first.kind = "raise" THEN first
             ELSE IF first.value = 0 THEN None
             ELSE Transaction(date_obj, designation,
                              IF is_debit THEN first.value ELSE 0,
                              IF is_debit THEN 0 ELSE first.value)
        ELSE None

\* lines 199-244: the line matched pattern.
main_transaction_line(text, match) ==
    LET designation == strip(group(match, text, 3))
        date_obj == strptime_d_m_Y(zfill2(group(match, text, 4)),
                                   zfill2(group(match, text, 5)),
                                   int(group(match, text, 6)))
        amount1_str == group(match, text, 7)
        amount2_str == group(match, text, 8)
        first == Decimal_str(_clean_amount(amount1_str))
        second == Decimal_str(_clean_amount(amount2_str))
        is_debit == any_keyword(debit_keywords, upper(designation))
    IN  IF date_obj.kind = "raise" THEN None       \* except ValueError
        ELSE IF amount1_str # << >> /\ amount2_str # << >>
        THEN IF first.kind = "raise" THEN first    \* leaves the function
             ELSE IF second.kind = "raise" THEN second
             ELSE IF first.value = 0 /\ second.value = 0 THEN None
             ELSE Transaction(date_obj, designation, first.value, second.value)
        ELSE IF amount1_str # << >>
        THEN IF first.kind = "raise" THEN first
             ELSE IF first.value = 0 THEN None
             ELSE Transaction(date_obj, designation,
                              IF is_debit THEN first.value ELSE 0,
                              IF is_debit THEN 0 ELSE first.value)
        ELSE None

\* _parse_transaction_line, lines 139-244: a Transaction, None, or the
\* exception that leaves the function.  The two defaults are not read.
_parse_transaction_line(text, default_year, default_month) ==
    LET match == re_match(pattern, text) IN
    IF match = None THEN alt_transaction_line(text)
    ELSE main_transaction_line(text, match)

\* A line of the extracted text is put together from its pieces: an operation
\* code or none, a description, a value date or none, and up to two amount
\* tokens.
LineCodes == { << >>, <<"0", "0", "1", "6", "B", "K", "/", "0", "6", " ", "0", "1", "]", " ">> }

LineLibelles ==
    { << >>, <<"V", "I", "R", " ", "R", "E", "C", "U">>,
      <<"F", "R", "A", "I", "S">>,
      <<"C", "O", "T", "I", "S", " ", "C", "N", "S", "S">>,
      <<"v", "i", "r", "e", "m", "e", "n", "t", " ", "e", "m", "i", "s">> }

NoDate == [day |-> << >>, month |-> << >>, year |-> << >>]

LineDates ==
    { NoDate,
      [day |-> <<"0", "7">>, month |-> <<"0", "1">>, year |-> <<"2", "0", "2", "5">>],
      [day |-> <<"3", "1">>, month |-> <<"0", "2">>, year |-> <<"2", "0", "2", "5">>],
      [day |-> <<"7">>, month |-> <<"1", "3">>, year |-> <<"2", "0", "2", "4">>] }

LineAmounts ==
    { << >>, <<"2", " ", "8", "0", "0", ",", "0", "0">>,
      <<"0", ",", "0", "0">>, <<"2", "\t", "8", "0", "0", ",", "0", "0">>,
      <<"3", "3", ".", "0", "0">> }

LineSecondAmounts == { << >>, <<"1", "2", ",", "5", "0">>, <<"0", ",", "0", "0">> }

Lines ==
    { l \in [code : LineCodes, libelle : LineLibelles, date : LineDates,
             amount1 : LineAmounts, amount2 : LineSecondAmounts] :
        l.amount1 = << >> => l.amount2 = << >> }

\* The text of a line: the pieces present, a space before the date and before
\* each amount.
LineText(l) ==
    l.code \o l.libelle
      \o (IF l.date = NoDate THEN << >>
          ELSE << " " >> \o l.date.day \o << " " >> \o l.date.month
                  \o << " " >> \o l.date.year)
      \o (IF l.amount1 = << >> THEN << >> ELSE << " " >> \o l.amount1)
      \o (IF l.amount2 = << >> THEN << >> ELSE << " " >> \o l.amount2)

\* self._parse_transaction_line(line_clean, filename_year, filename_month)
CallParseTransactionLine ==
    /\ transaction = NoResult
    /\ transaction' = _parse_transaction_line(LineText(line), 2025, 1)
    /\ UNCHANGED << analysis_vars, libelle, categorie, line, file_name,
                    text_lines, parsed, amount_str, amount,
                    store_vars >>

InitLine ==
    /\ line \in Lines
    /\ transaction = NoResult
    /\ AnalysisIdle /\ CategoryIdle /\ ParseIdle /\ AmountIdle
    /\ StoreVarsIdle

NextLine == CallParseTransactionLine

SpecLine == InitLine /\ [][NextLine]_vars

-----------------------------------------------------------------------------
(* C14 - C17: the line parser, stated on the pieces of the line             *)

\* The line has the shape of the coded-line pattern: a code, a description
\* and a value date.
CodedLine(l) == l.code # << >> /\ l.date # NoDate

\* The line has the shape of the bare date+amount pattern.
BareLine(l) == l.code = << >> /\ l.date # NoDate /\ l.amount1 # << >>

\* The token looks like an amount but holds a tab between its digits.
TokenInvalid(token) == \E i \in 1..Len(token) : token[i] = "\t"

\* The amount an amount token stands for, in thousandths: its digits read as
\* hundredths.
TokenValue(token) == 10 * int(SelectSeq(token, LAMBDA c : c \in Digits))

\* The value date of the line is a day of the calendar.
RealDate(l) ==
    /\ int(l.date.month) \in 1..12
    /\ int(l.date.day) \in 1..DaysInMonth(int(l.date.year), int(l.date.month))

\* The description holds one of the debit keywords, capitals or not.
HasDebitKeyword(description) ==
    \E k \in 1..Len(debit_keywords) : Occurs(debit_keywords[k], description)

\* C14: an amount token that matches the amount pattern but is no valid
\* decimal after cleaning makes only its own line be skipped: the line parser
\* returns no transaction and raises nothing, in the coded-line branch as in
\* the bare date+amount branch.
C14_InvalidAmountSkipsLine ==
    (transaction # NoResult
        /\ (TokenInvalid(line.amount1) \/ TokenInvalid(line.amount2)))
      => transaction = None

\* C15: the line parser returns no transaction and raises nothing for a line
\* that matches neither pattern, for a line whose date is no day of the
\* calendar, and for a line whose debit and credit are both zero, whichever
\* pattern matched.
C15_NoTransaction ==
    transaction # NoResult =>
        /\ (~CodedLine(line) /\ ~BareLine(line)) => transaction = None
        /\ (line.date # NoDate /\ ~RealDate(line)) => transaction = None
        /\ ( /\ CodedLine(line) \/ BareLine(line)
             /\ ~TokenInvalid(line.amount1) /\ ~TokenInvalid(line.amount2)
             /\ TokenValue(line.amount1) = 0 /\ TokenValue(line.amount2) = 0 )
              => transaction = None

\* C16: for a line of the coded shape that gives a transaction, two amounts
\* give debit = first amount and credit = second amount; one amount is the
\* debit, with credit 0, when the description holds a debit keyword, and the
\* credit, with debit 0, otherwise, so that exactly one side is not zero.
C16_DebitCredit ==
    (CodedLine(line) /\ transaction.kind = "Transaction") =>
        IF line.amount2 # << >>
        THEN /\ transaction.debit = TokenValue(line.amount1)
             /\ transaction.credit = TokenValue(line.amount2)
        ELSE /\ line.amount1 # << >>
             /\ IF HasDebitKeyword(line.libelle)
                THEN /\ transaction.debit = TokenValue(line.amount1)
                     /\ transaction.credit = 0
                ELSE /\ transaction.credit = TokenValue(line.amount1)
                     /\ transaction.debit = 0
             /\ (transaction.debit = 0) # (transaction.credit = 0)

\* A coded line whose description holds CNSS and that carries one amount has
\* given a transaction on the debit side.
C16_Witness ==
    /\ CodedLine(line)
    /\ transaction.kind = "Transaction"
    /\ Occurs(<<"C", "N", "S", "S">>, line.libelle)
    /\ line.amount1 # << >> /\ line.amount2 = << >>
    /\ transaction.debit > 0

\* C17: the bare date+amount pattern puts a single amount on the same side as
\* the coded-line pattern does for the same description.
C17_SameDisambiguation ==
    (CodedLine(line) /\ line.amount1 # << >> /\ line.amount2 = << >>) =>
        LET bare == _parse_transaction_line(
                        LineText([line EXCEPT !.code = << >>]), 2025, 1)
        IN  (transaction.kind = "Transaction" /\ bare.kind = "Transaction") =>
                /\ (transaction.debit > 0) = (bare.debit > 0)
                /\ (transaction.credit > 0) = (bare.credit > 0)

-----------------------------------------------------------------------------
(* awb_ocr_parser.py: AWBOCRParser.parse                                    *)
(* The call is followed line by line: its local variables make a frame, one *)
(* step handles one line of the text, and the last step builds the         *)
(* statement.  e_grave and e_circ stand for the letter e with a grave and  *)
(* with a circumflex accent.                                               *)

MaxLines == 2            \* lines of the extracted text

\* models.py, lines 26-34: the fields the dataclass takes, none with a default.
ReleveBancaireFields ==
    { "banque", "compte", "titulaire", "periode", "solde_initial",
      "solde_final", "transactions" }

\* ReleveBancaire(**kwargs): the generated __init__ raises TypeError when a
\* field is missing.
ReleveBancaire(kwargs) ==
    IF DOMAIN kwargs = ReleveBancaireFields
    THEN [kind |-> "ReleveBancaire", fields |-> kwargs]
    ELSE Raise("TypeError")

\* (\d{2})-(\d{4}), line 56
filename_pattern ==
    ReCat(<< ReGrp(1, ReRep(ReSet(Digits), 2, 2, TRUE)), ReSet({"-"}),
             ReGrp(2, ReDigits4) >>)

\* COMPTE\s*:\s*([\d\sA-Z]+) under re.IGNORECASE, line 69
compte_pattern ==
    ReCat(<< ReLitI(<<"C", "O", "M", "P", "T", "E">>),
             ReStar(ReSet(ReSpace)), ReSet({":"}), ReStar(ReSet(ReSpace)),
             ReGrp(1, RePlus(ReSet(Digits \cup ReSpace \cup Range(UpperCase)
                                      \cup Range(LowerCase)))) >>)

\* \d{4}\s+(\d{1,3}(?:[\s]\d{3})*[,\.]\d{2})\s+(CREDITEUR|DEBITEUR) under
\* re.IGNORECASE, lines 78 and 95
solde_pattern ==
    ReCat(<< ReDigits4, RePlus(ReSet(ReSpace)),
             ReGrp(1, ReCat(<< ReRep(ReSet(Digits), 1, 3, TRUE),
                               ReStar(ReCat(<< ReSet(ReSpace),
                                               ReRep(ReSet(Digits), 3, 3, TRUE) >>)),
                               ReSet({",", "."}),
                               ReRep(ReSet(Digits), 2, 2, TRUE) >>)),
             RePlus(ReSet(ReSpace)),
             ReGrp(2, ReAlt(<< ReLitI(<<"C", "R", "E", "D", "I", "T", "E", "U", "R">>),
                               ReLitI(<<"D", "E", "B", "I", "T", "E", "U", "R">>) >>)) >>)

\* skip_patterns, lines 109-113
skip_patterns ==
    << <<"T", "O", "T", "A", "L", " ", "M", "O", "U", "V", "E", "M", "E", "N", "T", "S">>,
       <<"P", "A", "G", "E">>,
       <<"-", "-", "-">>,
       <<"L", "I", "B", "E", "L", "L", "E">>,
       <<"V", "A", "L", "E", "U", "R">>,
       <<"C", "A", "P", "I", "T", "A", "U", "X">>,
       <<"C", "R", "E", "D", "I", "T">>,
       <<"D", "A", "T", "E">>,
       <<"A", "t", "t", "i", "j", "a", "r", "i", "w", "a", "f", "a">>,
       <<"C", "a", "m", "S", "c", "a", "n", "n", "e", "r">>,
       <<"s", "o", "c", "i", "e_acute", "t", "e_acute", " ", "a", "n", "o", "n", "y", "m", "e">>,
       <<"c", "a", "p", "i", "t", "a", "l">>,
       <<"S", "i", "e_grave", "g", "e">>,
       <<"a", "r", "r", "e_circ", "t", "e_acute">> >>

\* lines 82-88 and 99-105: the balance a marker line carries; the balance kept
\* so far when the amount is no decimal (except: pass).
solde_of(match, text, kept) ==
    LET value == Decimal_str(_clean_amount(group(match, text, 1))) IN
    IF value.kind = "raise" THEN kept
    ELSE IF contains(<<"D", "E", "B", "I", "T", "E", "U", "R">>, upper(group(match, text, 2)))
    THEN -value.value
    ELSE value.value

Unknown == <<"I", "n", "c", "o", "n", "n", "u", "e">>
NotDetected == <<"N", "o", "n", " ", "d", "e_acute", "t", "e", "c", "t", "e_acute">>

\* lines 43-59: the frame before the first line is read.
parse_start(name, now_year) ==
    LET match_filename == re_search(filename_pattern, name) IN
    [kind |-> "frame", pc |-> "loop", next |-> 1,
     solde_initial |-> 0, solde_final |-> 0, transactions |-> << >>,
     periode |-> Unknown, compte |-> NotDetected,
     filename_year |-> IF match_filename = None THEN now_year
                       ELSE int(group(match_filename, name, 2)),
     filename_month |-> IF match_filename = None THEN 1
                        ELSE int(group(match_filename, name, 1)),
     result |-> NoResult]

compte_of_last(frame, line_clean) ==
    LET match_compte == re_search(compte_pattern, line_clean) IN
    IF /\ contains(<<"C", "O", "M", "P", "T", "E">>, upper(line_clean))
       /\ match_compte # None
    THEN replace(replace(replace(group(match_compte, line_clean, 1),
                                 " ", << >>), "E", << >>), "S", << "5" >>)
    ELSE frame.compte

\* lines 68-71: the account number, read once.
compte_of(frame, line_clean) ==
    LET match_compte == re_search(compte_pattern, line_clean) IN
    IF /\ frame.compte = NotDetected
       /\ contains(<<"C", "O", "M", "P", "T", "E">>, upper(line_clean))
       /\ match_compte # None
    THEN replace(replace(replace(group(match_compte, line_clean, 1),
                                 " ", << >>), "E", << >>), "S", << "5" >>)
    ELSE frame.compte

parse_line_skip_list_first(frame, raw_line) ==
    LET line_clean == strip(raw_line)
        line_upper == upper(line_clean)
        seen == [frame EXCEPT !.next = @ + 1,
                              !.compte = compte_of(frame, line_clean)]
        match_solde == re_search(solde_pattern, line_clean)
        outcome == _parse_transaction_line(line_clean, frame.filename_year,
                                           frame.filename_month)
    IN  IF line_clean = << >> THEN [frame EXCEPT !.next = @ + 1]
        ELSE IF \E k \in 1..Len(skip_patterns) :
                   contains(str_lower(skip_patterns[k]), str_lower(line_clean))
        THEN seen
        ELSE IF /\ contains(<<"S", "O", "L", "D", "E">>, line_upper)
                /\ contains(<<"D", "E", "P", "A", "R", "T">>, line_upper)
                /\ match_solde # None
        THEN [seen EXCEPT !.solde_initial =
                              solde_of(match_solde, line_clean, @)]
        ELSE IF contains(<<"F", "I", "N", "A", "L">>, line_upper)
                /\ match_solde # None
        THEN [seen EXCEPT !.solde_final = solde_of(match_solde, line_clean, @)]
        ELSE IF outcome.kind = "raise"
        THEN [seen EXCEPT !.pc = "done", !.result = outcome]
        ELSE IF outcome.kind = "Transaction"
        THEN [seen EXCEPT !.transactions = Append(@, outcome)]
        ELSE seen

\* lines 61-122: one round of the loop.  An exception of the line parser is
\* not caught and ends the call.
parse_line(frame, raw_line) ==
    LET line_clean == strip(raw_line)
        line_upper == upper(line_clean)
        seen == [frame EXCEPT !.next = @ + 1,
                              !.compte = compte_of(frame, line_clean)]
        match_solde == re_search(solde_pattern, line_clean)
        outcome == _parse_transaction_line(line_clean, frame.filename_year,
                                           frame.filename_month)
    IN  IF line_clean = << >> THEN [frame EXCEPT !.next = @ + 1]
        ELSE IF /\ contains(<<"S", "O", "L", "D", "E">>, line_upper)
                /\ contains(<<"D", "E", "P", "A", "R", "T">>, line_upper)
                /\ match_solde # None
        THEN [seen EXCEPT !.solde_initial =
                              solde_of(match_solde, line_clean, @)]
        ELSE IF contains(<<"F", "I", "N", "A", "L">>, line_upper)
                /\ match_solde # None
        THEN [seen EXCEPT !.solde_final = solde_of(match_solde, line_clean, @)]
        ELSE IF \E k \in 1..Len(skip_patterns) :
                   contains(str_lower(skip_patterns[k]), str_lower(line_clean))
        THEN seen
        ELSE IF outcome.kind = "raise"
        THEN [seen EXCEPT !.pc = "done", !.result = outcome]
        ELSE IF outcome.kind = "Transaction"
        THEN [seen EXCEPT !.transactions = Append(@, outcome)]
        ELSE seen

\* f"{n:02d}"
two_digits(n) == IF n < 10 THEN << "0" >> \o digits_of(n) ELSE digits_of(n)

\* date.strftime("%m/%Y") for a year of four digits
strftime_m_Y(date) == two_digits(date.month) \o << "/" >> \o digits_of(date.year)

\* lines 124-128
periode_of(frame) ==
    IF frame.filename_month # 0 /\ frame.filename_year # 0
    THEN two_digits(frame.filename_month) \o << "/" >>
            \o digits_of(frame.filename_year)
    ELSE IF frame.transactions # << >>
    THEN strftime_m_Y(frame.transactions[1].date)
    ELSE frame.periode

\* lines 124-137: the period, then the statement.  The call names six of the
\* seven fields of ReleveBancaire.
parse_finish(frame) ==
    LET periode == periode_of(frame) IN
    [frame EXCEPT
        !.pc = "done",
        !.periode = periode,
        !.result = ReleveBancaire(
            [banque |-> "Attijariwafa Bank", compte |-> frame.compte,
             periode |-> periode, solde_initial |-> frame.solde_initial,
             solde_final |-> frame.solde_final,
             transactions |-> frame.transactions])]

\* Lines of the extracted text: an opening-balance line, a closing-balance
\* line, a line that names FINAL without a balance, a page line that carries
\* a date and an amount, a coded line, a coded line whose amount holds a tab,
\* the account line, and a blank line.
OpeningLine == <<"S", "O", "L", "D", "E", " ", "D", "E", "P", "A", "R", "T", " ", "2", "0", "2", "4", " ", "3", "1", "1", ",", "6", "1", " ", "D", "E", "B", "I", "T", "E", "U", "R">>
ClosingLine == <<"F", "I", "N", "A", "L", " ", "2", "0", "2", "5", " ", "2", " ", "7", "7", "3", ",", "1", "4", " ", "C", "R", "E", "D", "I", "T", "E", "U", "R">>
FinalWordLine == <<"V", "I", "R", " ", "F", "I", "N", "A", "L", " ", "0", "7", " ", "0", "1", " ", "2", "0", "2", "5", " ", "5", ",", "0", "0">>
PageLine == <<"P", "A", "G", "E", " ", "0", "7", " ", "0", "1", " ", "2", "0", "2", "5", " ", "5", ",", "0", "0">>
CodedSample == <<"0", "0", "1", "6", "B", "K", "/", "0", "6", " ", "0", "1", "]", " ", "F", "R", "A", "I", "S", " ", "0", "7", " ", "0", "3", " ", "2", "0", "2", "4", " ", "3", "3", ",", "0", "0">>
TabAmountLine == <<"0", "0", "1", "6", "B", "K", "/", "0", "6", " ", "0", "1", "]", " ", "V", "I", "R", " ", "0", "7", " ", "0", "1", " ", "2", "0", "2", "5", " ", "2", "\t", "8", "0", "0", ",", "0", "0">>
AccountLine == <<"C", "O", "M", "P", "T", "E", ":", " ", "0", "0", " ", "1", "9", "E">>
BlankLine == << " ", " " >>

TextLines ==
    { OpeningLine, ClosingLine, FinalWordLine, PageLine, CodedSample,
      TabAmountLine, AccountLine, BlankLine }

\* Names of the file: with a month-year hint, without one, and with the
\* month 00.
FileNames ==
    { <<"A", "W", "B", "_", "0", "2", "-", "2", "0", "2", "5", ".", "p", "d", "f">>,
      <<"r", "e", "l", "e", "v", "e", ".", "p", "d", "f">>,
      <<"A", "W", "B", "_", "0", "0", "-", "2", "0", "2", "5", ".", "p", "d", "f">> }

\* datetime.now().year when parse runs.
NowYears == { 2026 }

\* extract_text_from_pdf: the text has one more line.
ExtractLine ==
    /\ parsed = NoResult
    /\ Len(text_lines) < MaxLines
    /\ \E l \in TextLines : text_lines' = Append(text_lines, l)
    /\ UNCHANGED << analysis_vars, libelle, categorie, line, transaction,
                    file_name, parsed, amount_str, amount,
                    store_vars >>

\* parse is called: lines 43-59.
ParseStart ==
    /\ parsed = NoResult
    /\ \E now_year \in NowYears : parsed' = parse_start(file_name, now_year)
    /\ UNCHANGED << analysis_vars, libelle, categorie, line, transaction,
                    file_name, text_lines, amount_str, amount,
                    store_vars >>

\* One round of the loop over the lines.
ParseLine ==
    /\ parsed # NoResult
    /\ parsed.pc = "loop"
    /\ parsed.next <= Len(text_lines)
    /\ parsed' = parse_line(parsed, text_lines[parsed.next])
    /\ UNCHANGED << analysis_vars, libelle, categorie, line, transaction,
                    file_name, text_lines, amount_str, amount,
                    store_vars >>

\* The loop is over: lines 124-137.
ParseFinish ==
    /\ parsed # NoResult
    /\ parsed.pc = "loop"
    /\ parsed.next > Len(text_lines)
    /\ parsed' = parse_finish(parsed)
    /\ UNCHANGED << analysis_vars, libelle, categorie, line, transaction,
                    file_name, text_lines, amount_str, amount,
                    store_vars >>

InitParse ==
    /\ file_name \in FileNames
    /\ text_lines = << >>
    /\ parsed = NoResult
    /\ AnalysisIdle /\ CategoryIdle /\ LineIdle /\ AmountIdle
    /\ StoreVarsIdle

NextParse == ExtractLine \/ ParseStart \/ ParseLine \/ ParseFinish

SpecParse == InitParse /\ [][NextParse]_vars

-----------------------------------------------------------------------------
(* C13, C18, C19: statement assembly                                        *)

\* The line carries a balance: a year, an amount and CREDITEUR or DEBITEUR.
CarriesBalance(l) == re_search(solde_pattern, strip(l)) # None

HasWord(word, l) == Occurs(word, strip(l))

\* The four classifications of a non-blank line, in their priority.
Classification(l) ==
    IF /\ HasWord(<<"S", "O", "L", "D", "E">>, l)
       /\ HasWord(<<"D", "E", "P", "A", "R", "T">>, l)
       /\ CarriesBalance(l)
    THEN "opening balance"
    ELSE IF HasWord(<<"F", "I", "N", "A", "L">>, l) /\ CarriesBalance(l)
    THEN "closing balance"
    ELSE IF \E k \in 1..Len(skip_patterns) :
               Occurs(upper(skip_patterns[k]), l)
    THEN "skip list"
    ELSE "transaction parsing"

IsBlank(l) == \A i \in 1..Len(l) : l[i] \in ReSpace

\* The balance a marker line states: the digits of its amount read as
\* hundredths, negative when DEBITEUR.
MarkerBalance(l) ==
    LET text == strip(l)
        m == re_search(solde_pattern, text)
    IN  (IF Occurs(<<"D", "E", "B", "I", "T", "E", "U", "R">>,
                   group(m, text, 2)) THEN -1 ELSE 1)
            * TokenValue(group(m, text, 1))

\* The transactions of the first k lines: those of the lines that come to
\* transaction parsing and that the line parser accepts, in line order.
RECURSIVE AcceptedTransactions(_)
AcceptedTransactions(k) ==
    IF k = 0 THEN << >>
    ELSE LET l == text_lines[k]
             outcome == _parse_transaction_line(strip(l), 0, 0)
         IN  IF /\ ~IsBlank(l)
                /\ Classification(l) = "transaction parsing"
                /\ outcome.kind = "Transaction"
             THEN Append(AcceptedTransactions(k - 1), outcome)
             ELSE AcceptedTransactions(k - 1)

\* The balance stated by the last marker line of the class among the first k
\* lines, 0 when there is none.
RECURSIVE StatedBalance(_, _)
StatedBalance(class, k) ==
    IF k = 0 THEN 0
    ELSE IF ~IsBlank(text_lines[k]) /\ Classification(text_lines[k]) = class
    THEN MarkerBalance(text_lines[k])
    ELSE StatedBalance(class, k - 1)

\* C13: for any extracted text, assembly returns a statement without raising,
\* and the transactions of the statement are exactly the lines the line
\* parser accepts, in line order; a text without such a line gives a
\* statement with no transaction.
C13_AssemblyReturnsStatement ==
    (parsed # NoResult /\ parsed.pc = "done") =>
        /\ parsed.result.kind = "ReleveBancaire"
        /\ parsed.result.fields.transactions
              = AcceptedTransactions(Len(text_lines))

\* C18: while the text is read, every non-blank line is handled by exactly one
\* of the four classifications, tried in the order opening balance, closing
\* balance, skip list, transaction parsing: the transactions are those of the
\* lines that came to transaction parsing, and each balance is the one of the
\* last line of its class, so that a balance line is recognised before the
\* skip list is consulted and neither it nor a skip-list line adds a
\* transaction.
C18_LineClassification ==
    parsed # NoResult =>
        /\ parsed.transactions = AcceptedTransactions(parsed.next - 1)
        /\ parsed.solde_initial
              = StatedBalance("opening balance", parsed.next - 1)
        /\ parsed.solde_final
              = StatedBalance("closing balance", parsed.next - 1)

\* A closing line that ends in CREDITEUR and a page line that carries a date
\* and an amount have both been handled: the balance is set and no
\* transaction was added.
C18_Witness ==
    /\ parsed # NoResult
    /\ text_lines = << ClosingLine, PageLine >>
    /\ parsed.next = 3
    /\ Occurs(<<"C", "R", "E", "D", "I", "T">>, ClosingLine)
    /\ parsed.solde_final = 2773140
    /\ parsed.transactions = << >>

\* The file name carries a month-year hint: two digits, a dash and four
\* digits, the month being one of the twelve.
HintAt(name, i) ==
    /\ i + 6 <= Len(name)
    /\ \A j \in {0, 1, 3, 4, 5, 6} : name[i + j] \in Digits
    /\ name[i + 2] = "-"
    /\ int(SubSeq(name, i, i + 1)) \in 1..12

\* C19: the period of the statement is the month and year of the file name
\* when the name carries them; when it carries none and a transaction was
\* parsed, it is the month and year of the first transaction's date.
C19_Period ==
    (/\ parsed # NoResult
     /\ parsed.pc = "done"
     /\ parsed.result # Raise("InvalidOperation")) =>
        IF \E i \in 1..Len(file_name) : HintAt(file_name, i)
        THEN LET i == CHOOSE i \in 1..Len(file_name) : HintAt(file_name, i)
             IN  parsed.periode = SubSeq(file_name, i, i + 1) \o << "/" >>
                                     \o SubSeq(file_name, i + 3, i + 6)
        ELSE (/\ \A i \in 1..Len(file_name) : file_name[i] \notin Digits
              /\ parsed.transactions # << >>) =>
                 parsed.periode
                    = two_digits(parsed.transactions[1].date.month)
                         \o << "/" >> \o digits_of(parsed.transactions[1].date.year)

-----------------------------------------------------------------------------
(* Amounts as the statements print them, cleaned and converted              *)

\* The whole parts and the hundredths of the amounts written.
AmountWholes == {0, 7, 42, 999, 1000, 1005, 20040, 999999, 1000000, 1234567}
AmountCents == {0, 5, 50, 99}
Amounts == { w * 100 + c : w \in AmountWholes, c \in AmountCents }

\* How an amount is written: the separator of the thousands and the decimal
\* marker.  Statements print '2 800,00'; recognition also gives points and
\* commas in either place.
AmountStyles ==
    { << << " " >>, "," >>, << << "." >>, "." >>, << << >>, "," >>,
      << << >>, "." >>, << << "," >>, "," >>, << << "." >>, "," >>,
      << << "," >>, "." >> }

three_digits(n) ==
    IF n < 10 THEN << "0", "0" >> \o digits_of(n)
    ELSE IF n < 100 THEN << "0" >> \o digits_of(n)
    ELSE digits_of(n)

\* The whole part in groups of three digits.
RECURSIVE write_whole(_, _)
write_whole(n, thousands) ==
    IF n < 1000 THEN digits_of(n)
    ELSE write_whole(n \div 1000, thousands) \o thousands
            \o three_digits(n % 1000)

\* The amount of x hundredths, written in a style.
write_amount(x, style) ==
    write_whole(x \div 100, style[1]) \o << style[2] >> \o two_digits(x % 100)

\* A token is taken from the text of a statement.
WriteAmount ==
    /\ amount_str = << >>
    /\ amount = NoResult
    /\ \E x \in Amounts, style \in AmountStyles :
           amount_str' = write_amount(x, style)
    /\ UNCHANGED << analysis_vars, libelle, categorie, line, transaction,
                    file_name, text_lines, parsed, amount,
                    store_vars >>

\* Decimal(self._clean_amount(...)), as at lines 176-180 and 222-225
CallCleanAmount ==
    /\ amount = NoResult
    /\ amount' = Decimal_str(_clean_amount(amount_str))
    /\ UNCHANGED << analysis_vars, libelle, categorie, line, transaction,
                    file_name, text_lines, parsed, amount_str,
                    store_vars >>

InitAmount ==
    /\ amount_str = << >>
    /\ amount = NoResult
    /\ AnalysisIdle /\ CategoryIdle /\ LineIdle /\ ParseIdle
    /\ StoreVarsIdle

NextAmount == WriteAmount \/ CallCleanAmount

SpecAmount == InitAmount /\ [][NextAmount]_vars

-----------------------------------------------------------------------------
(* C20: amount round trip                                                   *)

\* The two ways of writing the round trip is claimed for.
RoundTripStyles == { << << " " >>, "," >>, << << "." >>, "." >> }

IsMarker(c) == c \in {",", "."}

Markers(text) == { i \in 1..Len(text) : IsMarker(text[i]) }

LastMarker(text) == CHOOSE i \in Markers(text) : \A j \in Markers(text) : j <= i

IsDigit(c) == c \in Digits

\* The digits before the last marker, concatenated, as the whole part, and
\* the digits after it as the decimals, in thousandths.
LastMarkerValue(text) ==
    LET whole == SelectSeq(SubSeq(text, 1, LastMarker(text) - 1), IsDigit)
        decimals == SubSeq(text, LastMarker(text) + 1, Len(text))
    IN  int(whole) * 1000 + int(decimals) * pow10(3 - Len(decimals))

\* C20: an amount x of two decimals, written with spaces between the thousands
\* and a comma before the decimals, or with points in both places, comes back
\* as exactly x from _clean_amount and Decimal; and a text that holds several
\* decimal markers is read with the last one as the decimal marker, the digits
\* before it being concatenated.
C20_AmountRoundTrip ==
    amount # NoResult =>
        /\ \A x \in Amounts, style \in RoundTripStyles :
               amount_str = write_amount(x, style) =>
                   amount = [kind |-> "Decimal", value |-> x * 10]
        /\ Cardinality(Markers(amount_str)) >= 2 =>
               amount = [kind |-> "Decimal",
                         value |-> LastMarkerValue(amount_str)]

\* 1 234 567,99 written with points in both places has been converted.
C20_Witness ==
    /\ amount_str = << "1", ".", "2", "3", "4", ".", "5", "6", "7", ".",
                       "9", "9" >>
    /\ Cardinality(Markers(amount_str)) = 3
    /\ amount = [kind |-> "Decimal", value |-> 1234567990]

-----------------------------------------------------------------------------
(* awb_gemini_parser.py: the structured-extraction adapter                  *)

MaxEntries == 2          \* entries of data["transactions"]

\* Values of the dict json.loads returns: None, a number (in thousandths) and
\* a str.
JNull == [kind |-> "null"]
JNumber(v) == [kind |-> "number", value |-> v]
JString(s) == [kind |-> "string", value |-> s]

\* bool(x) is False: None, 0 and ''.
falsy(x) == x = JNull \/ x = JNumber(0) \/ x = JString(<< >>)

\* x or 0
or_zero(x) == IF falsy(x) THEN JNumber(0) ELSE x

\* Decimal(text) with a sign before the numeral.
Decimal_signed(text) ==
    LET body == strip(text) IN
    IF body # << >> /\ body[1] \in {"-", "+"}
    THEN IF Len(body) = 1 \/ body[2] \in ReSpace
         THEN Raise("InvalidOperation")
         ELSE LET d == Decimal_str(Tail(body)) IN
              IF d.kind = "raise" THEN d
              ELSE [kind |-> "Decimal",
                    value |-> IF body[1] = "-" THEN 0 - d.value ELSE d.value]
    ELSE Decimal_str(text)

\* Decimal(str(x)): the numeral of a number is always a decimal, a str is
\* read as it stands.
Decimal_of_str(x) ==
    IF x.kind = "number" THEN [kind |-> "Decimal", value |-> x.value]
    ELSE Decimal_signed(x.value)

\* datetime.strptime(date_str, "%d/%m/%Y"), line 66, for a str of the shape
\* dd/mm/yyyy or of another length; TypeError for what is no str.
strptime_date(date_str) ==
    IF date_str.kind # "string" THEN Raise("TypeError")
    ELSE LET s == date_str.value IN
         IF /\ Len(s) = 10
            /\ s[3] = "/" /\ s[6] = "/"
            /\ \A i \in {1, 2, 4, 5, 7, 8, 9, 10} : s[i] \in Digits
         THEN strptime_d_m_Y(SubSeq(s, 1, 2), SubSeq(s, 4, 5),
                             int(SubSeq(s, 7, 10)))
         ELSE Raise("ValueError")

\* lines 62-85: one entry of data["transactions"].  An entry without a date
\* is passed over; ValueError and TypeError pass the entry over; any other
\* exception leaves the loop.
gemini_entry(t) ==
    IF falsy(t.date) THEN None
    ELSE LET date == strptime_date(t.date) IN
         IF date.kind = "raise" THEN None
         ELSE LET debit == Decimal_of_str(or_zero(t.debit))
                  credit == Decimal_of_str(or_zero(t.credit))
              IN  IF debit.kind = "raise" THEN debit
                  ELSE IF credit.kind = "raise" THEN credit
                  ELSE Transaction(date, t.libelle, debit.value, credit.value)

\* lines 60-85: the loop over the entries.
RECURSIVE gemini_transactions(_, _)
gemini_transactions(entries, transactions) ==
    IF entries = << >> THEN [kind |-> "list", items |-> transactions]
    ELSE LET outcome == gemini_entry(Head(entries)) IN
         IF outcome.kind = "raise" THEN outcome
         ELSE gemini_transactions(
                  Tail(entries),
                  IF outcome = None THEN transactions
                  ELSE Append(transactions, outcome))

\* AWBGeminiParser.parse, lines 51-102, once extract_bank_statement has
\* returned: what the handler at line 100 catches is raised again.
gemini_parse(d) ==
    LET transactions == gemini_transactions(d.transactions, << >>) IN
    IF transactions.kind = "raise" THEN transactions
    ELSE LET solde_initial == Decimal_of_str(or_zero(d.solde_initial))
             solde_final == Decimal_of_str(or_zero(d.solde_final))
         IN  IF solde_initial.kind = "raise" THEN solde_initial
             ELSE IF solde_final.kind = "raise" THEN solde_final
             ELSE ReleveBancaire(
                      [banque |-> d.banque, compte |-> d.numero_compte,
                       titulaire |-> d.titulaire, periode |-> d.periode,
                       solde_initial |-> solde_initial.value,
                       solde_final |-> solde_final.value,
                       transactions |-> transactions.items])

\* What the extraction may hold for a date, a debit, a credit and a balance:
\* the values the prompt asks for (a date JJ/MM/AAAA, a decimal number or
\* null) and values it does not ask for (a day that does not exist, a
\* negative number, a number written with a comma).
EntryDates ==
    { JString(<<"0", "7", "/", "0", "1", "/", "2", "0", "2", "5">>),
      JString(<<"3", "1", "/", "0", "2", "/", "2", "0", "2", "5">>),
      JNull }
EntryDebits ==
    { JNull, JNumber(150000), JNumber(-150000),
      JString(<<"1", "2", ",", "5", "0">>) }
EntryCredits == { JNull, JNumber(5000) }
Entries ==
    { [date |-> d, libelle |-> JString(<<"V", "I", "R">>), debit |-> db,
       credit |-> cr] : d \in EntryDates, db \in EntryDebits,
                        cr \in EntryCredits }
DataBalances == { JNull, JNumber(2311610) }
DataAccounts == { JNull, JString(<<"1">>) }

\* extract_bank_statement: the response holds one more entry.
ReceiveEntry ==
    /\ extracted = NoResult
    /\ Len(data.transactions) < MaxEntries
    /\ \E t \in Entries :
           data' = [data EXCEPT !.transactions = Append(@, t)]
    /\ UNCHANGED << analysis_vars, text_vars, extracted, store, db_result,
                    calls >>

\* parser.parse(file_path), main.py line 228
GeminiParse ==
    /\ extracted = NoResult
    /\ extracted' = gemini_parse(data)
    /\ UNCHANGED << analysis_vars, text_vars, data, store, db_result, calls >>

InitGemini ==
    /\ \E si \in DataBalances, account \in DataAccounts :
           data = [banque |-> JString(<<"A", "W", "B">>),
                   numero_compte |-> account,
                   titulaire |-> JNull,
                   periode |-> JString(<<"0", "1", "-", "2", "0", "2", "5">>),
                   solde_initial |-> si,
                   solde_final |-> JNull,
                   transactions |-> << >>]
    /\ extracted = NoResult
    /\ AnalysisIdle /\ TextIdle /\ DatabaseIdle /\ CallsIdle

NextGemini == ReceiveEntry \/ GeminiParse

SpecGemini == InitGemini /\ [][NextGemini]_vars

-----------------------------------------------------------------------------
(* C21: amounts of a transaction are not negative                           *)

\* C21: every transaction of a statement an entry point produces has its debit
\* and its credit, both at least 0 (0 when inactive).
C21_AmountsNotNegative ==
    (extracted # NoResult /\ extracted.kind = "ReleveBancaire") =>
        \A i \in 1..Len(extracted.fields.transactions) :
            LET t == extracted.fields.transactions[i] IN
            /\ {"debit", "credit"} \subseteq DOMAIN t
            /\ t.debit >= 0
            /\ t.credit >= 0

-----------------------------------------------------------------------------
(* database.py: the store of statements and transactions                    *)

MaxReleveId == 3         \* ids the releves table hands out
MaxTransactionId == 4    \* ids the transactions table hands out

\* Values of a column: a text or NULL.
SqlNull == [kind |-> "NULL"]
SqlText(s) == [kind |-> "text", value |-> s]

\* a = b in a WHERE clause and in a UNIQUE index: never true of a NULL.
sql_eq(a, b) == a # SqlNull /\ b # SqlNull /\ a = b

\* UNIQUE(banque, compte, periode), line 42: two rows collide when the three
\* columns are equal, none of them being NULL.
same_key(a, b) ==
    /\ sql_eq(a.banque, b.banque)
    /\ sql_eq(a.compte, b.compte)
    /\ sql_eq(a.periode, b.periode)

\* init_db, lines 18-60: two empty tables and their AUTOINCREMENT sequences.
\* get_db_connection, lines 12-16, opens the file without a PRAGMA, so that
\* foreign keys are enforced only when the SQLite library was built with
\* SQLITE_DEFAULT_FOREIGN_KEYS=1; the stock build, and the one CPython ships,
\* leave them off.
init_db(foreign_keys) ==
    [foreign_keys |-> foreign_keys, releves |-> {}, transactions |-> {},
     seq_releves |-> 0, seq_transactions |-> 0]

Done(st, value) == [store |-> st, result |-> value]

\* INSERT INTO transactions, lines 130-133 and 199-202: the row takes the next
\* id; with foreign keys enforced the statement must exist.
insert_transaction(st, releve_id, t) ==
    IF st.foreign_keys /\ \A row \in st.releves : row.id # releve_id
    THEN Raise("IntegrityError")
    ELSE [st EXCEPT
            !.transactions = @ \cup
                { [id |-> st.seq_transactions + 1, releve_id |-> releve_id,
                   date |-> t.date, designation |-> t.designation,
                   debit |-> t.debit, credit |-> t.credit] },
            !.seq_transactions = @ + 1]

\* date.strftime("%Y-%m-%d") for a year of four digits
strftime_Y_m_d(date) ==
    digits_of(date.year) \o << "-" >> \o two_digits(date.month)
        \o << "-" >> \o two_digits(date.day)

\* The parameters of line 133: t.date.strftime raises AttributeError when the
\* date is None.
transaction_row(t) ==
    IF t.date = None THEN Raise("AttributeError")
    ELSE [date |-> strftime_Y_m_d(t.date), designation |-> t.designation,
          debit |-> t.debit, credit |-> t.credit]

\* The parameters of line 202: t['date'] raises KeyError when the dict has
\* no date.
dict_row(t) ==
    IF "date" \notin DOMAIN t THEN Raise("KeyError")
    ELSE [date |-> t.date, designation |-> t.designation,
          debit |-> t.debit, credit |-> t.credit]

\* The loops at lines 129-133 and 198-202: the rows are inserted in order; a
\* row whose parameters cannot be read raises and ends the loop.
RECURSIVE insert_transactions(_, _, _)
insert_transactions(st, releve_id, rows) ==
    IF rows = << >> THEN st
    ELSE IF "exc" \in DOMAIN Head(rows) THEN Head(rows)
    ELSE LET next == insert_transaction(st, releve_id, Head(rows)) IN
         IF "exc" \in DOMAIN next THEN next
         ELSE insert_transactions(next, releve_id, Tail(rows))

\* DELETE FROM transactions WHERE releve_id = ?
delete_transactions(st, releve_id) ==
    [st EXCEPT !.transactions = { t \in @ : t.releve_id # releve_id }]

save_releve_no_rollback(st, r) ==
    LET found == { row \in st.releves : same_key(row, r) }
        releve_id == IF found # {}
                     THEN (CHOOSE row \in found : TRUE).id
                     ELSE st.seq_releves + 1
        written ==
            IF found # {}
            THEN delete_transactions(
                     [st EXCEPT !.releves =
                         { IF row.id = releve_id
                           THEN [row EXCEPT !.titulaire = r.titulaire,
                                            !.solde_initial = r.solde_initial,
                                            !.solde_final = r.solde_final]
                           ELSE row : row \in @ }],
                     releve_id)
            ELSE [st EXCEPT
                    !.releves = @ \cup
                        { [id |-> releve_id, banque |-> r.banque,
                           compte |-> r.compte, titulaire |-> r.titulaire,
                           periode |-> r.periode,
                           solde_initial |-> r.solde_initial,
                           solde_final |-> r.solde_final] },
                    !.seq_releves = releve_id]
        inserted ==
            insert_transactions(
                written, releve_id,
                [i \in 1..Len(r.transactions) |->
                    transaction_row(r.transactions[i])])
    IN  IF "exc" \in DOMAIN inserted
        THEN Done(written, inserted)
        ELSE Done(inserted, [kind |-> "int", value |-> releve_id])

\* save_releve, lines 91-142: the statement of the same key is updated and
\* its transactions deleted, or a new statement is inserted; then the
\* transactions are inserted and the whole is committed.  Any exception
\* rolls back every write of the call.  The column date_import, which no
\* operation modelled here reads, is left out.
save_releve(st, r) ==
    LET found == { row \in st.releves : same_key(row, r) }
        releve_id == IF found # {}
                     THEN (CHOOSE row \in found : TRUE).id
                     ELSE st.seq_releves + 1
        written ==
            IF found # {}
            THEN delete_transactions(
                     [st EXCEPT !.releves =
                         { IF row.id = releve_id
                           THEN [row EXCEPT !.titulaire = r.titulaire,
                                            !.solde_initial = r.solde_initial,
                                            !.solde_final = r.solde_final]
                           ELSE row : row \in @ }],
                     releve_id)
            ELSE [st EXCEPT
                    !.releves = @ \cup
                        { [id |-> releve_id, banque |-> r.banque,
                           compte |-> r.compte, titulaire |-> r.titulaire,
                           periode |-> r.periode,
                           solde_initial |-> r.solde_initial,
                           solde_final |-> r.solde_final] },
                    !.seq_releves = releve_id]
        inserted ==
            insert_transactions(
                written, releve_id,
                [i \in 1..Len(r.transactions) |->
                    transaction_row(r.transactions[i])])
    IN  IF "exc" \in DOMAIN inserted
        THEN Done(st, inserted)
        ELSE Done(inserted, [kind |-> "int", value |-> releve_id])

\* delete_releve, lines 167-174: the row of the statement is deleted; its
\* transactions go with it only when foreign keys are enforced.
delete_releve(st, releve_id) ==
    LET deleted == [st EXCEPT !.releves = { row \in @ : row.id # releve_id }]
    IN  Done(IF st.foreign_keys
             THEN delete_transactions(deleted, releve_id)
             ELSE deleted,
             None)

\* UPDATE releves SET ... WHERE id = ?: IntegrityError, and no change, when
\* the new row would collide with another one.
update_releve(st, releve_id, changes) ==
    LET changed(row) ==
            [f \in DOMAIN row |->
                IF f \in DOMAIN changes THEN changes[f] ELSE row[f]]
    IN
    IF \E row \in st.releves, other \in st.releves :
           row.id = releve_id /\ other.id # releve_id
              /\ same_key(changed(row), other)
    THEN Raise("IntegrityError")
    ELSE [st EXCEPT !.releves =
             { IF row.id = releve_id THEN changed(row) ELSE row : row \in @ }]

\* update_releve_header, lines 176-186
update_releve_header(st, releve_id, titulaire, banque, compte, solde_initial, solde_final) ==
    update_releve(st, releve_id,
                  [titulaire |-> titulaire, banque |-> banque,
                   compte |-> compte, solde_initial |-> solde_initial,
                   solde_final |-> solde_final])

\* main.py, lines 318-329: the form writes the header, then the period; an
\* exception of the first write leaves the handler before the second.
edit_header(st, releve_id, titulaire, banque, compte, solde_initial, solde_final, new_periode) ==
    LET first == update_releve_header(st, releve_id, titulaire, banque,
                                      compte, solde_initial, solde_final)
    IN  IF "exc" \in DOMAIN first THEN Done(st, first)
        ELSE LET second == update_releve(first, releve_id,
                                         [periode |-> new_periode]) IN
             IF "exc" \in DOMAIN second THEN Done(first, second)
             ELSE Done(second, None)

\* replace_transactions, lines 188-209: as save_releve, without the
\* statement.
replace_transactions(st, releve_id, transactions) ==
    LET inserted ==
            insert_transactions(
                delete_transactions(st, releve_id), releve_id,
                [i \in 1..Len(transactions) |-> dict_row(transactions[i])])
    IN  IF "exc" \in DOMAIN inserted
        THEN Done(st, inserted)
        ELSE Done(inserted, None)


\* Statements handed to save_releve: the account is a text, or None when the
\* extraction gave null for it; two periods; two contents of the same
\* statement, which differ in the holder, the balances and the transactions;
\* and a content whose second transaction has no date.
StoreAccounts == { SqlText(<<"1">>), SqlNull }
StorePeriods ==
    { SqlText(<<"0", "1", "-", "2", "0", "2", "5">>),
      SqlText(<<"0", "2", "-", "2", "0", "2", "5">>) }
SavedTransaction(d, date) ==
    Transaction(date, SqlText(<< d >>), 1000, 0)
StoreContents ==
    { [titulaire |-> SqlText(<<"A">>), solde_initial |-> 0,
       solde_final |-> 2000,
       transactions |-> << SavedTransaction("a", datetime(2025, 1, 7)),
                           SavedTransaction("b", datetime(2025, 1, 8)) >>],
      [titulaire |-> SqlText(<<"B">>), solde_initial |-> 5000,
       solde_final |-> 6000,
       transactions |-> << SavedTransaction("c", datetime(2025, 1, 9)) >>],
      [titulaire |-> SqlText(<<"B">>), solde_initial |-> 5000,
       solde_final |-> 6000,
       transactions |-> << SavedTransaction("c", datetime(2025, 1, 9)),
                           SavedTransaction("d", None) >>] }
StoreStatements ==
    { [banque |-> SqlText(<<"A", "W", "B">>), compte |-> account,
       periode |-> periode, titulaire |-> c.titulaire,
       solde_initial |-> c.solde_initial, solde_final |-> c.solde_final,
       transactions |-> c.transactions] :
         account \in StoreAccounts, periode \in StorePeriods,
         c \in StoreContents }

\* Lists handed to replace_transactions: one row, and one row followed by a
\* dict without a date.
ReplacementLists ==
    { << [date |-> <<"2", "0", "2", "5", "-", "0", "1", "-", "1", "0">>,
          designation |-> SqlText(<<"e">>), debit |-> 0, credit |-> 1000] >>,
      << [date |-> <<"2", "0", "2", "5", "-", "0", "1", "-", "1", "0">>,
          designation |-> SqlText(<<"e">>), debit |-> 0, credit |-> 1000],
         [designation |-> SqlText(<<"f">>), debit |-> 0, credit |-> 0] >> }

\* The ids a caller may hold: those the releves table has handed out.
KnownIds == 1..store.seq_releves

\* What the last call was, what the store held before it, and its outcome.
Called(op, arg, outcome) ==
    [op |-> op, arg |-> arg, before |-> store, result |-> outcome.result]

\* db.save_releve(releve), main.py line 231
SaveReleve ==
    /\ \E r \in StoreStatements :
         /\ store.seq_releves < MaxReleveId
         /\ store.seq_transactions + Len(r.transactions) <= MaxTransactionId
         /\ LET outcome == save_releve(store, r) IN
            /\ store' = outcome.store
            /\ db_result' = Called("save_releve", r, outcome)
    /\ UNCHANGED << analysis_vars, text_vars, data, extracted, calls >>

\* db.delete_releve(selected_id), main.py line 406
DeleteReleve ==
    /\ \E id \in KnownIds :
         LET outcome == delete_releve(store, id) IN
         /\ store' = outcome.store
         /\ db_result' = Called("delete_releve", id, outcome)
    /\ UNCHANGED << analysis_vars, text_vars, data, extracted, calls >>

\* The header form, main.py lines 318-329: the account typed is a text.
EditHeader ==
    /\ \E row \in store.releves, account \in StoreAccounts \ { SqlNull },
          periode \in StorePeriods :
         LET outcome == edit_header(store, row.id, row.titulaire, row.banque,
                                    account, row.solde_initial,
                                    row.solde_final, periode)
         IN  /\ store' = outcome.store
             /\ db_result' = Called("edit_header", row.id, outcome)
    /\ UNCHANGED << analysis_vars, text_vars, data, extracted, calls >>

\* db.replace_transactions(selected_id, cleaned), main.py line 399
ReplaceTransactions ==
    /\ \E id \in KnownIds, ts \in ReplacementLists :
         /\ store.seq_transactions + Len(ts) <= MaxTransactionId
         /\ LET outcome == replace_transactions(store, id, ts) IN
            /\ store' = outcome.store
            /\ db_result' = Called("replace_transactions", id, outcome)
    /\ UNCHANGED << analysis_vars, text_vars, data, extracted, calls >>

InitStore ==
    /\ store \in { init_db(foreign_keys) : foreign_keys \in BOOLEAN }
    /\ db_result = NoResult
    /\ AnalysisIdle /\ TextIdle /\ GeminiIdle /\ CallsIdle

NextStore == SaveReleve \/ DeleteReleve \/ EditHeader \/ ReplaceTransactions

SpecStore == InitStore /\ [][NextStore]_vars

-----------------------------------------------------------------------------
(* C22, C23, C28: the stored statements                                     *)

\* Two statements carry the same triple (banque, compte, periode).
ShareKey(a, b) ==
    a.banque = b.banque /\ a.compte = b.compte /\ a.periode = b.periode

TransactionsOf(st, releve_id) ==
    { t \in st.transactions : t.releve_id = releve_id }

SavedOk ==
    /\ db_result # NoResult
    /\ db_result.op = "save_releve"
    /\ db_result.result.kind = "int"

\* C22: no two stored statements share (banque, compte, periode); a save for
\* a key that is already stored keeps the id of that statement, updates its
\* holder and balances and leaves it with exactly the transactions of this
\* save; a save for a new key adds exactly one statement.
C22_NaturalKey ==
    /\ store # NoResult =>
          \A a \in store.releves, b \in store.releves :
              ShareKey(a, b) => a.id = b.id
    /\ SavedOk =>
          LET r == db_result.arg
              before == db_result.before
              id == db_result.result.value
              now == { row \in store.releves : row.id = id }
          IN  /\ \A row \in now :
                    /\ ShareKey(row, r)
                    /\ row.titulaire = r.titulaire
                    /\ row.solde_initial = r.solde_initial
                    /\ row.solde_final = r.solde_final
              /\ Cardinality(now) = 1
              /\ { t.designation : t \in TransactionsOf(store, id) }
                    = { r.transactions[i].designation :
                          i \in 1..Len(r.transactions) }
              /\ Cardinality(TransactionsOf(store, id)) = Len(r.transactions)
              /\ IF \E row \in before.releves : ShareKey(row, r)
                 THEN /\ \E row \in before.releves :
                            ShareKey(row, r) /\ row.id = id
                      /\ Cardinality(store.releves)
                            = Cardinality(before.releves)
                 ELSE Cardinality(store.releves)
                         = Cardinality(before.releves) + 1

\* C23: every stored transaction refers to a statement that is still stored.
C23_NoOrphan ==
    store # NoResult =>
        \A t \in store.transactions :
            \E row \in store.releves : row.id = t.releve_id

FailedWrite ==
    /\ db_result # NoResult
    /\ db_result.op \in {"save_releve", "replace_transactions"}
    /\ db_result.result.kind = "raise"

\* C28: when save_releve or replace_transactions raises, the store is exactly
\* what it was before the call.
C28_AllOrNothing == FailedWrite => store = db_result.before

\* A save for a stored statement that has transactions failed on its second
\* transaction, after the update, the delete and one insert.
C28_Witness ==
    /\ FailedWrite
    /\ db_result.op = "save_releve"
    /\ db_result.result = Raise("AttributeError")
    /\ \E row \in db_result.before.releves :
          /\ same_key(row, db_result.arg)
          /\ TransactionsOf(db_result.before, row.id) # {}
          /\ TransactionsOf(store, row.id)
                = TransactionsOf(db_result.before, row.id)

-----------------------------------------------------------------------------
(* Invocations in progress: analysis.py, charts.py and the line parser      *)

MaxCalls == 2            \* invocations in progress at the same time

\* The local variables of the functions: each invocation has its own.
NoLocals ==
    [enriched |-> << >>, sorted_releves |-> << >>, reports |-> << >>,
     all_tx |-> << >>, df |-> << >>, i |-> 0]

frame_shared(i) == 1

\* Where the names assigned in a function body live: enriched, sorted_releves
\* and reports (analysis.py lines 61, 68, 70), all_tx and df (lines 81, 88),
\* and the loop variables are local names, bound in the frame of the
\* invocation that assigns them; no function of the five has a global or
\* nonlocal statement, a default argument that is mutable or an attribute it
\* assigns.
frame_of(i) == i

local(cs, i) == cs[frame_of(i)].locals

assign(cs, i, changes) ==
    [cs EXCEPT ![frame_of(i)].locals =
        [name \in DOMAIN @ |->
            IF name \in DOMAIN changes THEN changes[name] ELSE @[name]]]

goto(cs, i, pc) == [cs EXCEPT ![i].pc = pc]

return(cs, i, value) == [cs EXCEPT ![i].pc = "done", ![i].result = value]

\* analyze_continuity, lines 55-75, statement by statement.  The values are
\* the calls after one step of invocation i.
step_analyze_continuity(cs, i) ==
    LET me == cs[i]
        my == local(cs, i)
    IN  CASE me.pc = "start" ->
                 { goto(assign(cs, i, [enriched |-> << >>, i |-> 1]), i,
                        "enrich") }
          [] me.pc = "enrich" ->
                 IF my.i <= Len(me.arg)
                 THEN { assign(cs, i,
                               [enriched |->
                                    Append(my.enriched, enrich(me.arg[my.i])),
                                i |-> my.i + 1]) }
                 ELSE { goto(assign(cs, i,
                                    [sorted_releves |->
                                         sorted_by_period(my.enriched),
                                     reports |-> << >>, i |-> 1]),
                             i, "report") }
          [] me.pc = "report" ->
                 IF my.i <= Len(my.sorted_releves) - 1
                 THEN { assign(cs, i,
                               [reports |->
                                    Append(my.reports,
                                           ConsistencyReport(
                                               my.sorted_releves[my.i],
                                               my.sorted_releves[my.i + 1])),
                                i |-> my.i + 1]) }
                 ELSE { return(cs, i,
                               [kind |-> "reports", list |-> my.reports]) }

\* merge_statements, lines 77-98, statement by statement.
step_merge_statements(cs, i) ==
    LET me == cs[i]
        my == local(cs, i)
    IN  CASE me.pc = "start" ->
                 { goto(assign(cs, i, [all_tx |-> << >>, i |-> 1]), i,
                        "extend") }
          [] me.pc = "extend" ->
                 IF my.i <= Len(me.arg)
                 THEN { assign(cs, i,
                               [all_tx |-> my.all_tx \o me.arg[my.i],
                                i |-> my.i + 1]) }
                 ELSE IF my.all_tx = << >>
                 THEN { return(cs, i, [kind |-> "DataFrame", rows |-> << >>]) }
                 ELSE { goto(assign(cs, i, [df |-> DataFrame(my.all_tx)]), i,
                             "sort") }
          [] me.pc = "sort" ->
                 IF \E k \in 1..Len(my.df) :
                        to_datetime(my.df[k].date).kind = "raise"
                 THEN { return(cs, i, [kind |-> "DataFrame", rows |-> my.df]) }
                 ELSE { return(cs, i, [kind |-> "DataFrame", rows |-> p]) :
                          p \in sort_values(my.df) }

\* The three functions without a loop over their argument: one step.
step_call(cs, i) ==
    LET me == cs[i] IN
    CASE me.fn = "parse_period" -> { return(cs, i, parse_period(me.arg)) }
      [] me.fn = "categorize_transaction" ->
             { return(cs, i, [kind |-> "str",
                              value |-> categorize_transaction(me.arg)]) }
      [] me.fn = "_parse_transaction_line" ->
             { return(cs, i, _parse_transaction_line(me.arg, 2025, 1)) }

step(cs, i) ==
    CASE cs[i].fn = "analyze_continuity" -> step_analyze_continuity(cs, i)
      [] cs[i].fn = "merge_statements" -> step_merge_statements(cs, i)
      [] OTHER -> step_call(cs, i)

\* What the invocations are handed: statements of two accounts, two lists of
\* batches, a period, a description and a line.
CallArguments ==
    { [fn |-> "analyze_continuity",
       arg |-> << [id |-> 1, periode |-> <<"0", "3", "/", "2", "0", "2", "4">>,
                   solde_initial |-> 1010, solde_final |-> 1010],
                  [id |-> 2, periode |-> <<"0", "1", "-", "2", "0", "2", "4">>,
                   solde_initial |-> 1000, solde_final |-> 1019] >>],
      [fn |-> "analyze_continuity",
       arg |-> << [id |-> 1, periode |-> <<"1", "2", "/", "2", "0", "2", "3">>,
                   solde_initial |-> 1000, solde_final |-> 1000],
                  [id |-> 2, periode |-> <<"0", "1", "-", "2", "0", "2", "4">>,
                   solde_initial |-> 1000, solde_final |-> 1000] >>],
      [fn |-> "merge_statements",
       arg |-> << << [date |-> <<"2", "0", "2", "4", "-", "0", "1", "-", "0", "5">>,
                      amount |-> 100] >>,
                  << [date |-> <<"2", "0", "2", "3", "-", "1", "2", "-", "3", "1">>,
                      amount |-> 50] >> >>],
      [fn |-> "merge_statements",
       arg |-> << << [date |-> <<"2", "0", "2", "4", "-", "0", "2", "-", "3", "0">>,
                      amount |-> 10] >> >>],
      [fn |-> "parse_period",
       arg |-> <<"J", "a", "n", "v", "i", "e", "r", " ", "2", "0", "2", "4">>],
      [fn |-> "categorize_transaction",
       arg |-> <<"v", "i", "r", " ", "l", "o", "y", "e", "r">>],
      [fn |-> "_parse_transaction_line", arg |-> CodedSample] }

\* A caller invokes one of the functions.
StartCall ==
    /\ Len(calls) < MaxCalls
    /\ \E c \in CallArguments :
         calls' = Append(calls, [fn |-> c.fn, arg |-> c.arg, pc |-> "start",
                                 locals |-> NoLocals, result |-> NoResult])
    /\ UNCHANGED << analysis_vars, text_vars, data, extracted, store,
                    db_result >>

\* Any invocation in progress takes its next step.
StepCall ==
    /\ \E i \in 1..Len(calls) :
         /\ calls[i].pc # "done"
         /\ calls' \in step(calls, i)
    /\ UNCHANGED << analysis_vars, text_vars, data, extracted, store,
                    db_result >>

InitCalls ==
    /\ calls = << >>
    /\ AnalysisIdle /\ TextIdle /\ GeminiIdle /\ DatabaseIdle

NextCalls == StartCall \/ StepCall

SpecCalls == InitCalls /\ [][NextCalls]_vars

-----------------------------------------------------------------------------
(* C24: interleaved invocations                                             *)

\* What an invocation returns when it runs alone.
Alone(fn, arg) ==
    CASE fn = "analyze_continuity" -> { analyze_continuity(arg) }
      [] fn = "merge_statements" -> merge_statements(arg)
      [] fn = "parse_period" -> { parse_period(arg) }
      [] fn = "categorize_transaction" ->
             { [kind |-> "str", value |-> categorize_transaction(arg)] }
      [] fn = "_parse_transaction_line" ->
             { _parse_transaction_line(arg, 2025, 1) }

\* C24: however the steps of the invocations are interleaved, each invocation
\* returns what it returns when run alone on its argument.
C24_Interleaving ==
    \A i \in 1..Len(calls) :
        calls[i].pc = "done" => calls[i].result \in Alone(calls[i].fn, calls[i].arg)

\* A second analyze_continuity, on other statements, has returned while the
\* first is inside its loop.
C24_Witness ==
    /\ Len(calls) = 2
    /\ calls[1].fn = "analyze_continuity"
    /\ calls[2].fn = "analyze_continuity"
    /\ calls[1].arg # calls[2].arg
    /\ calls[1].pc = "enrich"
    /\ Len(calls[1].locals.enriched) = 1
    /\ calls[2].pc = "done"
    /\ Len(calls[2].result.list) = 1

-----------------------------------------------------------------------------
(* The head of a statement: account and balance lines                       *)

\* The opening-balance line in the format the parser documents (line 74), a
\* second account line, an account and an opening balance on one line, and
\* an opening-balance line whose amount holds a tab.
DocumentedLine == <<"S", "O", "L", "D", "E", " ", "D", "E", "P", "A", "R", "T", " ", "A", "U", " ", "3", "1", " ", "1", "2", " ", "2", "0", "2", "4", " ", "2", "3", "1", "1", ",", "6", "1", " ", "C", "R", "E", "D", "I", "T", "E", "U", "R">>
SecondAccountLine == <<"C", "O", "M", "P", "T", "E", ":", " ", "7", "S">>
AccountOpeningLine == <<"C", "O", "M", "P", "T", "E", ":", " ", "1", "9", " ", "S", "O", "L", "D", "E", " ", "D", "E", "P", "A", "R", "T", " ", "2", "0", "2", "4", " ", "1", ",", "0", "0", " ", "C", "R", "E", "D", "I", "T", "E", "U", "R">>
TabOpeningLine == <<"S", "O", "L", "D", "E", " ", "D", "E", "P", "A", "R", "T", " ", "2", "0", "2", "4", " ", "2", "\t", "3", "1", "1", ",", "6", "1", " ", "C", "R", "E", "D", "I", "T", "E", "U", "R">>

HeadLines ==
    { OpeningLine, ClosingLine, DocumentedLine, AccountLine,
      SecondAccountLine, AccountOpeningLine, TabOpeningLine, CodedSample }

HeadFileNames ==
    { <<"A", "W", "B", "_", "0", "2", "-", "2", "0", "2", "5", ".", "p", "d", "f">> }

\* extract_text_from_pdf: the text has one more line, of the head of a
\* statement.
ExtractHeadLine ==
    /\ parsed = NoResult
    /\ Len(text_lines) < MaxLines
    /\ \E l \in HeadLines : text_lines' = Append(text_lines, l)
    /\ UNCHANGED << analysis_vars, libelle, categorie, line, transaction,
                    file_name, parsed, amount_str, amount,
                    store_vars >>

InitHead ==
    /\ file_name \in HeadFileNames
    /\ text_lines = << >>
    /\ parsed = NoResult
    /\ AnalysisIdle /\ CategoryIdle /\ LineIdle /\ AmountIdle
    /\ StoreVarsIdle

NextHead == ExtractHeadLine \/ ParseStart \/ ParseLine \/ ParseFinish

SpecHead == InitHead /\ [][NextHead]_vars

-----------------------------------------------------------------------------
(* C25, C26, C27: balance and account lines                                 *)

\* The loop of parse handles the line text_lines[parsed.next] in this step.
HandlesLine ==
    IF parsed = NoResult \/ parsed' = NoResult THEN FALSE
    ELSE /\ parsed.pc = "loop"
         /\ parsed.next <= Len(text_lines)
         /\ parsed'.next = parsed.next + 1

\* The amount a text of digits, separators and two decimals states, in
\* thousandths.
AmountWritten(text) == int(SelectSeq(text, IsDigit)) * 10

\* The balance a marker line states: negated when the qualifier is DEBITEUR.
BalanceWritten(l) ==
    LET m == re_search(solde_pattern, l)
        a == AmountWritten(group(m, l, 1))
    IN  IF upper(group(m, l, 2)) = <<"D", "E", "B", "I", "T", "E", "U", "R">>
        THEN -a ELSE a

IsOpeningMarker(l) ==
    /\ contains(<<"S", "O", "L", "D", "E">>, upper(l))
    /\ contains(<<"D", "E", "P", "A", "R", "T">>, upper(l))
    /\ re_search(solde_pattern, l) # None

IsClosingMarker(l) ==
    /\ ~IsOpeningMarker(l)
    /\ contains(<<"F", "I", "N", "A", "L">>, upper(l))
    /\ re_search(solde_pattern, l) # None

\* C25: a line recognised as an opening-balance (closing-balance) marker sets
\* the opening (closing) balance to the amount on the line, negated when the
\* qualifier is DEBITEUR, and leaves the other balance, the account and the
\* transactions as they were.
C25_MarkerLine ==
    [][HandlesLine =>
         LET l == strip(text_lines[parsed.next]) IN
         /\ IsOpeningMarker(l) =>
              /\ parsed'.solde_initial = BalanceWritten(l)
              /\ parsed'.solde_final = parsed.solde_final
              /\ parsed'.compte = parsed.compte
              /\ parsed'.transactions = parsed.transactions
         /\ IsClosingMarker(l) =>
              /\ parsed'.solde_final = BalanceWritten(l)
              /\ parsed'.solde_initial = parsed.solde_initial
              /\ parsed'.compte = parsed.compte
              /\ parsed'.transactions = parsed.transactions]_vars

\* SOLDE DEPART, a year, an amount of digits, a comma or period and two
\* decimals whose integer part is whole or split by spaces into groups of
\* three, and CREDITEUR or DEBITEUR.
documented_pattern ==
    ReCat(<< ReDigits4, RePlus(ReSet({" "})),
             ReGrp(1, ReCat(<< RePlus(ReSet(Digits)),
                               ReStar(ReCat(<< ReSet({" "}),
                                               ReRep(ReSet(Digits), 3, 3, TRUE) >>)),
                               ReSet({",", "."}),
                               ReRep(ReSet(Digits), 2, 2, TRUE) >>)),
             RePlus(ReSet({" "})),
             ReGrp(2, ReAlt(<< ReLitI(<<"C", "R", "E", "D", "I", "T", "E", "U", "R">>),
                               ReLitI(<<"D", "E", "B", "I", "T", "E", "U", "R">>) >>)) >>)

IsDocumentedOpening(l) ==
    /\ contains(<<"S", "O", "L", "D", "E", " ", "D", "E", "P", "A", "R", "T">>, l)
    /\ re_search(documented_pattern, l) # None

\* C26: an opening-balance line in the documented format sets the opening
\* balance to its amount, whether or not the integer part is split.
C26_DocumentedFormat ==
    [][HandlesLine =>
         LET l == strip(text_lines[parsed.next])
             m == re_search(documented_pattern, l)
         IN  IsDocumentedOpening(l) =>
                parsed'.solde_initial
                  = IF upper(group(m, l, 2)) = <<"D", "E", "B", "I", "T", "E", "U", "R">>
                    THEN -AmountWritten(group(m, l, 1))
                    ELSE AmountWritten(group(m, l, 1))]_vars

\* The account a line states after COMPTE: -- spaces and E removed, S read
\* as 5 -- or None when the line states none.
AccountWritten(l) ==
    LET m == re_search(compte_pattern, strip(l)) IN
    IF strip(l) = << >> \/ m = None THEN None
    ELSE LET kept == SelectSeq(group(m, strip(l), 1),
                               LAMBDA c : c # " " /\ c # "E")
         IN  [i \in 1..Len(kept) |-> IF kept[i] = "S" THEN "5" ELSE kept[i]]

\* The account lines among the first n lines of the text.
AccountLinesBefore(n) ==
    { i \in 1..n : AccountWritten(text_lines[i]) # None }

\* C27: the account is Non détecté until a line states one, and from then on
\* it is the account of the first such line, whatever later lines state.
C27_FirstAccount ==
    parsed # NoResult =>
        LET seen == AccountLinesBefore(parsed.next - 1) IN
        IF seen = {} THEN parsed.compte = NotDetected
        ELSE parsed.compte
               = AccountWritten(text_lines[CHOOSE i \in seen :
                                              \A j \in seen : i <= j])

\* Two account lines have been handled, the first with an S: the account is
\* the one of the first.
C27_Witness ==
    /\ parsed # NoResult
    /\ text_lines = << SecondAccountLine, AccountLine >>
    /\ parsed.next = 3
    /\ parsed.compte = <<"7", "5">>

-----------------------------------------------------------------------------
(* C29, C30: analyze_continuity, its argument and its chain of reports      *)

\* C29: the call of analyze_continuity leaves the list it is handed with the
\* same statements in the same order, none of them modified and none with an
\* entry period_obj.
C29_ReadOnly ==
    [][(reports = NoResult /\ reports' # NoResult) =>
         /\ releves' = releves
         /\ \A i \in 1..Len(releves') : "period_obj" \notin DOMAIN releves'[i]]_vars

\* Three statements, handed over latest first, have been analysed, and the
\* list still holds them in that order without period_obj.
C29_Witness ==
    /\ reports # NoResult
    /\ Len(releves) = 3
    /\ releves[1].periode = <<"0", "3", "/", "2", "0", "2", "4">>
    /\ releves[2].periode = <<"0", "1", "-", "2", "0", "2", "4">>
    /\ releves[3].periode = <<"1", "2", "/", "2", "0", "2", "3">>
    /\ \A i \in 1..3 : DOMAIN releves[i]
                          = {"id", "periode", "solde_initial", "solde_final"}
    /\ reports.list[1].current_period = FirstDay(2023, 12)

\* The statement r is what two reports hold of one statement: the period its
\* label resolves to, its opening balance and its closing balance.
StandsFor(r, period, opening, closing) ==
    /\ parse_period(r.periode) = period
    /\ r.solde_initial = opening
    /\ r.solde_final = closing

\* C30: every report has months_diff >= 0, and the later side of report k is
\* the earlier side of report k + 1: the same period, and one statement of
\* the list whose opening balance report k holds and whose closing balance
\* report k + 1 holds.
C30_Chain ==
    reports # NoResult =>
        /\ \A k \in 1..Len(reports.list) : reports.list[k].months_diff >= 0
        /\ \A k \in 1..(Len(reports.list) - 1) :
             LET a == reports.list[k]
                 b == reports.list[k + 1]
             IN  /\ a.next_period = b.current_period
                 /\ \E i \in 1..Len(releves) :
                      StandsFor(releves[i], a.next_period,
                                a.next_start_balance, b.current_end_balance)

\* Three statements of three months with different balances, handed over
\* out of order, have been analysed: the middle one closes the first report
\* and opens the second.
C30_Witness ==
    /\ reports # NoResult
    /\ Len(releves) = 3
    /\ Len(reports.list) = 2
    /\ releves[1].periode = <<"0", "1", "-", "2", "0", "2", "4">>
    /\ releves[1].solde_initial = 1000 /\ releves[1].solde_final = 1019
    /\ releves[2].periode = <<"0", "3", "/", "2", "0", "2", "4">>
    /\ releves[3].periode = <<"1", "2", "/", "2", "0", "2", "3">>
    /\ releves[2].solde_final = 1010 /\ releves[3].solde_initial = 1010
    /\ reports.list[1].next_start_balance = 1000
    /\ reports.list[2].current_end_balance = 1019
    /\ reports.list[1].months_diff = 1
    /\ reports.list[2].months_diff = 2

=============================================================================
